---- MODULE Spec2Model ----
(***************************************************************************)
(* A model of the Graal code installer of HotSpot                          *)
(* (src/share/vm/graal/graalCodeInstaller.cpp): the reference-map decoder, *)
(* the value translator, the scope recorder and the site dispatcher.       *)
(*                                                                         *)
(* Heap objects created with `new` carry a handle h, the number of the     *)
(* allocation, so that pointer equality of the C++ code is equality of     *)
(* handles.  A fatal error (fatal, guarantee, ShouldNotReachHere, and      *)
(* assert in a build that defines ASSERT) ends the installation.           *)
(***************************************************************************)
EXTENDS Integers, Sequences, FiniteSets, TLC

VARIABLES
    build,            \* the build: [ASSERT, VM_LITTLE_ENDIAN], fixed for a run
    pc,               \* position of the installation / of the function under check
    inp,              \* the input of the function under check (pure-function specifications)
    out,              \* its result
    sites_length,     \* _sites->length()
    site_index,       \* loop variable i of initialize_buffer
    site,             \* the site dispatched last
    next_call_type,   \* _next_call_type
    invoke_mark_pc,   \* _invoke_mark_pc
    recorder,         \* _debug_recorder: the pc descriptors with their scope chains
    arena,            \* number of objects allocated so far (next handle)
    store,            \* the ObjectValues allocated so far, by handle
    oop_recorder,     \* the metadata the _oop_recorder holds
    relocs,           \* relocation records appended to the instructions section
    patches,          \* instruction patches done so far
    consts_end,       \* _constants->size()
    offsets,          \* _offsets
    implicit_table,   \* _implicit_exception_table
    handler_table,    \* _exception_handler_table
    dependencies,     \* _dependencies
    no_safepoint,     \* a No_Safepoint_Verifier is alive
    registered,       \* GraalEnv::register_method was called
    fatal_error       \* the fatal error that ended the installation, or "none"

vars == <<build, pc, inp, out, sites_length, site_index, site, next_call_type,
          invoke_mark_pc, recorder, arena, store, oop_recorder, relocs, patches,
          consts_end, offsets, implicit_table, handler_table, dependencies, no_safepoint,
          registered, fatal_error>>

(***************************************************************************)
(* Bounds of the model.                                                    *)
(***************************************************************************)
MaxSites == 3
MaxValues == 3
MaxDepth == 3

(***************************************************************************)
(* Program constants.                                                      *)
(***************************************************************************)
NUM_CPU_REGS == 16
NUM_XMM_REGS == 16
NUM_REGS == NUM_CPU_REGS + NUM_XMM_REGS
MapWordBits == 64
HeapWordSize == 8
BytesPerLong == 8

\* CPU_REGS[i + 1] is the register of Graal register index i.
CPU_REGS == <<"rax", "rcx", "rdx", "rbx", "rsp", "rbp", "rsi", "rdi",
              "r8", "r9", "r10", "r11", "r12", "r13", "r14", "r15">>
OOP_ALLOWED == <<TRUE, TRUE, TRUE, TRUE, FALSE, FALSE, TRUE, TRUE,
                 TRUE, TRUE, FALSE, TRUE, TRUE, TRUE, TRUE, TRUE>>
XMM_REGS == [i \in 1..NUM_XMM_REGS |-> <<"xmm", i - 1>>]

NULL == [sv |-> "NULL"]
NoError == "none"

(***************************************************************************)
(* debug.hpp: assert is compiled only when ASSERT is defined; guarantee,   *)
(* fatal and ShouldNotReachHere are always compiled.  Each yields the      *)
(* error that ends the run, or NoError.                                    *)
(***************************************************************************)
assert(p, msg) == IF build.ASSERT /\ ~p THEN msg ELSE NoError
guarantee(p, msg) == IF ~p THEN msg ELSE NoError
fatal(msg) == msg
ShouldNotReachHere == "ShouldNotReachHere"

\* The first error of a sequence of checks done in order.
RECURSIVE FirstError(_)
FirstError(errs) ==
    IF errs = <<>> THEN NoError
    ELSE IF Head(errs) # NoError THEN Head(errs)
    ELSE FirstError(Tail(errs))

(***************************************************************************)
(* The compiler's values (input).  type is the BasicType of the value's    *)
(* kind.  A VirtualObject value is a reference ref into the heap of        *)
(* virtual objects of the debug info: heap[ref] = [id, isLongArray,        *)
(* values], so that virtual objects can refer to each other and to         *)
(* themselves.                                                             *)
(***************************************************************************)
IntLikeTypes == {"T_INT", "T_FLOAT", "T_SHORT", "T_CHAR", "T_BOOLEAN", "T_BYTE"}
BasicTypes == IntLikeTypes \cup {"T_LONG", "T_DOUBLE", "T_OBJECT", "T_ARRAY", "T_ADDRESS"}

ILLEGAL == [tag |-> "Illegal"]
RegisterValue(type, number) == [tag |-> "Register", type |-> type, number |-> number]
StackSlot(type, offset, addFrameSize) ==
    [tag |-> "StackSlot", type |-> type, offset |-> offset, addFrameSize |-> addFrameSize]
Constant(type, primitive, object) ==
    [tag |-> "Constant", type |-> type, primitive |-> primitive, object |-> object]
VirtualObject(ref) == [tag |-> "VirtualObject", ref |-> ref]
code_MonitorValue(owner, lockData, eliminated) ==
    [tag |-> "Monitor", owner |-> owner, lockData |-> lockData, eliminated |-> eliminated]

(***************************************************************************)
(* The runtime's scope values (output).                                    *)
(***************************************************************************)
LocationValue(h, where, type, at) ==
    [sv |-> "Location", h |-> h, where |-> where, type |-> type, at |-> at]
ConstantIntValue(h, v) == [sv |-> "ConstantInt", h |-> h, value |-> v]
ConstantLongValue(h, v) == [sv |-> "ConstantLong", h |-> h, value |-> v]
ConstantOopWriteValue(h, obj) == [sv |-> "ConstantOopWrite", h |-> h, value |-> obj]
\* An ObjectValue lives in the store, where its field values grow; a scope
\* value that is an ObjectValue is the pointer to it.
ObjectValue(h) == [sv |-> "Object", h |-> h]
NewObjectValue(id, klass) == [id |-> id, klass |-> klass, field_values |-> <<>>]

\* The translation context threaded through the translator: the next handle,
\* the ObjectValues, the seen-objects list (GrowableArray<ScopeValue*>* objects),
\* the metadata of the oop recorder and the first fatal error.
Context(a, s, objects, metadata) ==
    [arena |-> a, store |-> s, objects |-> objects, metadata |-> metadata, error |-> NoError]

Result(value, second, cx) == [value |-> value, second |-> second, cx |-> cx]
Failed(cx, err) == Result(NULL, NULL, [cx EXCEPT !.error = err])

(***************************************************************************)
(* record_metadata_in_constant: a word constant ('j', T_LONG) that carries *)
(* a type has its Klass looked up in the oop recorder, which adds it when  *)
(* it is not there yet.  object is "null", <<"type", k>> or <<"string">>   *)
(* or <<"other">>.                                                         *)
(***************************************************************************)
record_metadata_in_constant(constant, cx) ==
    IF constant.type = "T_LONG" /\ constant.object # <<"null">>
    THEN IF constant.object[1] = "type"
         THEN [cx EXCEPT !.metadata = @ \cup {constant.object[2]}]
         ELSE [cx EXCEPT !.error =
                  assert(constant.object[1] = "string", "unexpected annotation type")]
    ELSE cx

\* new T(...): the next handle, and the context after the allocation.
Alloc(cx) == [cx EXCEPT !.arena = @ + 1]

(***************************************************************************)
(* get_hotspot_value, the branches for a RegisterValue, a StackSlot and a  *)
(* Constant (lines 136-198).                                               *)
(***************************************************************************)
RegisterLocationType(type, number) ==
    IF number < 16
    THEN IF type \in IntLikeTypes \cup {"T_ADDRESS"} THEN "int_in_long"
         ELSE IF type = "T_LONG" THEN "lng"
         ELSE IF type \in {"T_OBJECT", "T_ARRAY"} THEN "oop" ELSE "normal"
    ELSE IF type = "T_FLOAT" THEN "normal" ELSE "dbl"

RegisterAssert(type, number) ==
    IF number < 16
    THEN IF type \in IntLikeTypes \cup {"T_ADDRESS", "T_LONG"} THEN NoError
         ELSE assert(type \in {"T_OBJECT", "T_ARRAY"}, "unexpected type in cpu register")
    ELSE assert(type \in {"T_FLOAT", "T_DOUBLE"},
                "only float and double expected in xmm register")

\* a variant that forgets the double in an XMM register
RegisterHasSecond_long_only(type, number) == type = "T_LONG"

\* second = value for the types that take two slots in a register
RegisterHasSecond(type, number) ==
    IF number < 16 THEN type = "T_LONG" ELSE type = "T_DOUBLE"

get_hotspot_value_Register(value, cx) ==
    LET err == RegisterAssert(value.type, value.number)
        reg == IF value.number < 16 THEN <<"cpu", value.number>>
               ELSE <<"xmm", value.number - 16>>
        v == LocationValue(cx.arena, "reg",
                           RegisterLocationType(value.type, value.number), reg)
    IN  IF err # NoError THEN Failed(cx, err)
        ELSE Result(v, IF RegisterHasSecond(value.type, value.number) THEN v ELSE NULL,
                    Alloc(cx))

StackLocationType(type) ==
    IF type = "T_DOUBLE" THEN "dbl"
    ELSE IF type = "T_LONG" THEN "lng"
    ELSE IF type \in {"T_OBJECT", "T_ARRAY"} THEN "oop" ELSE "normal"

StackHasSecond(type) == type = "T_DOUBLE" \/ type = "T_LONG"

get_hotspot_value_StackSlot(value, total_frame_size, cx) ==
    LET offset == IF value.addFrameSize THEN value.offset + total_frame_size
                  ELSE value.offset
        v == LocationValue(cx.arena, "stk", StackLocationType(value.type), offset)
    IN  Result(v, IF StackHasSecond(value.type) THEN v ELSE NULL, Alloc(cx))

\* A jlong primitive is the pair of its 32-bit halves, [hi, lo].  *(jint*)&prim on
\* a little-endian machine reads the low half.
jlong(hi, lo) == [hi |-> hi, lo |-> lo]
jint(prim) == prim.lo

get_hotspot_value_Constant(value, cx0) ==
    LET cx == record_metadata_in_constant(value, cx0)
    IN  IF cx.error # NoError THEN Failed(cx, cx.error)
        ELSE IF value.type \in IntLikeTypes
        THEN Result(ConstantIntValue(cx.arena, jint(value.primitive)), NULL, Alloc(cx))
        ELSE IF value.type \in {"T_LONG", "T_DOUBLE"}
        THEN Result(ConstantLongValue(cx.arena + 1, value.primitive),
                    ConstantIntValue(cx.arena, 0), Alloc(Alloc(cx)))
        ELSE IF value.type = "T_OBJECT"
        THEN Result(ConstantOopWriteValue(cx.arena, value.object), NULL, Alloc(cx))
        ELSE IF value.type = "T_ADDRESS"
        THEN Result(ConstantLongValue(cx.arena, value.primitive), NULL, Alloc(cx))
        ELSE Failed(cx, ShouldNotReachHere)

(***************************************************************************)
(* get_hotspot_value, the VirtualObject branch (lines 199-237): the linear *)
(* scan of the seen-objects list for the id, and otherwise the new         *)
(* ObjectValue, appended to the list before its fields are translated.     *)
(***************************************************************************)
\* a variant whose scan starts at the second entry of the list
RECURSIVE FindObject_from_second(_, _, _, _)
FindObject_from_second(objects, s, id, i) ==
    IF i + 1 > Len(objects) THEN NULL
    ELSE IF s[objects[i + 1]].id = id THEN ObjectValue(objects[i + 1])
    ELSE FindObject_from_second(objects, s, id, i + 1)

\* the first ObjectValue of the list with this id, or NULL
RECURSIVE FindObject(_, _, _, _)
FindObject(objects, s, id, i) ==
    IF i > Len(objects) THEN NULL
    ELSE IF s[objects[i]].id = id THEN ObjectValue(objects[i])
    ELSE FindObject(objects, s, id, i + 1)

\* a variant that does not put the new ObjectValue in the list before its fields
\* are translated
AppendNewObject_unseen(cx, id, klass) ==
    [cx EXCEPT !.arena = @ + 2,
               !.store = (cx.arena + 1 :> NewObjectValue(id, klass)) @@ @]

\* lines 213-214: sv = new ObjectValue(id, new ConstantOopWriteValue(javaMirror));
\* objects->append(sv).  The mirror is allocated first.
AppendNewObject(cx, id, klass) ==
    [cx EXCEPT !.arena = @ + 2,
               !.store = (cx.arena + 1 :> NewObjectValue(id, klass)) @@ @,
               !.objects = Append(@, cx.arena + 1)]

\* a variant with the filler of a long array before the value in every build
FieldEntries_filler_first(r, isLongArray) ==
    IF isLongArray /\ r.second = NULL THEN <<ConstantIntValue(r.cx.arena, 0), r.value>>
    ELSE IF r.second # NULL THEN <<r.second, r.value>>
    ELSE <<r.value>>

\* lines 221-235: the scope values one field adds to sv->field_values(), and
\* the context after it (the filler of a long array is one more allocation)
FieldEntries(r, isLongArray) ==
    IF isLongArray /\ r.second = NULL
    THEN IF build.VM_LITTLE_ENDIAN
         THEN <<ConstantIntValue(r.cx.arena, 0), r.value>>
         ELSE <<r.value, ConstantIntValue(r.cx.arena, 0)>>
    ELSE IF r.second # NULL THEN <<r.second, r.value>>
    ELSE <<r.value>>

AppendField(r, isLongArray, svh) ==
    LET cx1 == IF isLongArray /\ r.second = NULL THEN Alloc(r.cx) ELSE r.cx
    IN  [cx1 EXCEPT !.store[svh].field_values = @ \o FieldEntries(r, isLongArray)]

RECURSIVE get_hotspot_value(_, _, _, _)
RECURSIVE translate_fields(_, _, _, _, _, _, _)

\* a variant that skips the entry after a wide value, as the loop over the
\* values of a frame does
field_translated_skips(values, i, isLongArray, svh, total_frame_size, heap, r) ==
    IF r.cx.error # NoError THEN r.cx
    ELSE translate_fields(values, IF r.second # NULL THEN i + 2 ELSE i + 1, isLongArray,
                          svh, total_frame_size, heap, AppendField(r, isLongArray, svh))

\* lines 221-236: the rest of a round of the loop, r being the translation of
\* the field's value, and the rounds after it
field_translated(values, i, isLongArray, svh, total_frame_size, heap, r) ==
    IF r.cx.error # NoError THEN r.cx
    ELSE translate_fields(values, i + 1, isLongArray, svh, total_frame_size, heap,
                          AppendField(r, isLongArray, svh))

\* the loop of lines 217-236 from index i on
translate_fields(values, i, isLongArray, svh, total_frame_size, heap, cx) ==
    IF cx.error # NoError \/ i > Len(values) THEN cx
    ELSE field_translated(values, i, isLongArray, svh, total_frame_size, heap,
                          get_hotspot_value(values[i], total_frame_size, heap, cx))

\* line 237: return sv, cx being the context after the fields
object_translated(svh, cx) ==
    IF cx.error # NoError THEN Failed(cx, cx.error)
    ELSE Result(ObjectValue(svh), NULL, cx)

get_hotspot_value_VirtualObject(value, total_frame_size, heap, cx) ==
    LET vo == heap[value.ref]
        found == FindObject(cx.objects, cx.store, vo.id, 1)
    IN  IF found # NULL THEN Result(found, NULL, cx)
        ELSE object_translated(cx.arena + 1,
                 translate_fields(vo.values, 1, vo.isLongArray, cx.arena + 1,
                                  total_frame_size, heap,
                                  AppendNewObject(cx, vo.id, vo.isLongArray)))

get_hotspot_value(value, total_frame_size, heap, cx) ==
    IF cx.error # NoError THEN Failed(cx, cx.error)
    ELSE IF value = ILLEGAL
    THEN Result(LocationValue(cx.arena, "stk", "invalid", 0), NULL, Alloc(cx))
    ELSE IF value.tag = "Register" THEN get_hotspot_value_Register(value, cx)
    ELSE IF value.tag = "StackSlot"
    THEN get_hotspot_value_StackSlot(value, total_frame_size, cx)
    ELSE IF value.tag = "Constant" THEN get_hotspot_value_Constant(value, cx)
    ELSE IF value.tag = "VirtualObject"
    THEN get_hotspot_value_VirtualObject(value, total_frame_size, heap, cx)
    ELSE Failed(cx, ShouldNotReachHere)

(***************************************************************************)
(* get_monitor_value (lines 246-264).  A lock data value that is no        *)
(* LocationValue is cast to one in a build without ASSERT: the location    *)
(* read is then whatever the object holds there, <<"garbage">>.            *)
(***************************************************************************)
MonitorValue(owner, loc, eliminated) ==
    [sv |-> "Monitor", owner |-> owner, basic_lock |-> loc, eliminated |-> eliminated]

\* lines 254-263, o and l being the translations of the owner and the lock data
monitor_of(value, o, l) ==
    LET err == FirstError(<<
            o.cx.error,
            assert(o.second = NULL, "monitor cannot occupy two stack slots"),
            l.cx.error,
            assert(l.second = l.value,
                   "monitor is LONG value that occupies two stack slots"),
            assert(l.value.sv = "Location", "invalid monitor location")>>)
        loc == IF l.value.sv = "Location"
               THEN [where |-> l.value.where, type |-> l.value.type, at |-> l.value.at]
               ELSE [where |-> "garbage", type |-> "garbage", at |-> 0]
    IN  IF err # NoError THEN Failed(l.cx, err)
        ELSE Result(MonitorValue(o.value, loc, value.eliminated), NULL, l.cx)

\* lines 252-253
monitor_lock_data(value, total_frame_size, heap, o) ==
    monitor_of(value, o, get_hotspot_value(value.lockData, total_frame_size, heap, o.cx))

get_monitor_value(value, total_frame_size, heap, cx) ==
    IF guarantee(value.tag = "Monitor", "Monitors must be of type MonitorValue") # NoError
    THEN Failed(cx, "Monitors must be of type MonitorValue")
    ELSE monitor_lock_data(value, total_frame_size, heap,
                           get_hotspot_value(value.owner, total_frame_size, heap, cx))

(***************************************************************************)
(* The reference-map decoder (lines 47-103).  A bit map is the sequence of *)
(* its 64-bit words, a word the set of the positions of its 1 bits; the    *)
(* reference to a bit map may be null.                                     *)
(***************************************************************************)
GraalBitMap(words) == [isNull |-> FALSE, words |-> words]
NullBitMap == [isNull |-> TRUE, words |-> <<>>]

\* a variant that takes the register index for the 32-bit half of a register
get_hotspot_reg_halved(graal_reg) == <<"reg", CPU_REGS[(graal_reg \div 2) + 1]>>

get_hotspot_reg(graal_reg) ==
    IF graal_reg < NUM_CPU_REGS THEN <<"reg", CPU_REGS[graal_reg + 1]>>
    ELSE <<"reg", XMM_REGS[graal_reg - NUM_CPU_REGS + 1]>>

is_bit_set(bit_map, i) == (i % MapWordBits) \in bit_map.words[(i \div MapWordBits) + 1]

bitmap_size(bit_map) == Len(bit_map.words) * MapWordBits

\* VMRegImpl::stack2reg(i * 2): HotSpot stack slots are 4 bytes
stack2reg(slot) == <<"stack", slot>>

\* OopMap::set_oop / OopMap::set_value: one more entry of the map
set_oop(map, reg) == Append(map, [reg |-> reg, type |-> "oop"])
set_value(map, reg) == Append(map, [reg |-> reg, type |-> "value"])

\* the entry the round i of a loop adds: set_oop for a set bit, else set_value
round_entry(bit_map, i, reg) ==
    IF is_bit_set(bit_map, i) THEN set_oop(<<>>, reg)[1] ELSE set_value(<<>>, reg)[1]

\* the loop of lines 79-88: <<map, error>>.  The rounds run in the order of the
\* registers; the first set bit of a register that may hold no oop ends them
\* when assertions are compiled in.
register_loop(register_map) ==
    LET bad == {i \in 0..(NUM_CPU_REGS - 1) :
                   is_bit_set(register_map, i)
                   /\ assert(OOP_ALLOWED[i + 1], "this register may never be an oop")
                          # NoError}
        rounds == IF bad = {} THEN NUM_CPU_REGS
                  ELSE CHOOSE i \in bad : \A j \in bad : i <= j
    IN  <<[k \in 1..rounds |-> round_entry(register_map, k - 1, get_hotspot_reg(k - 1))],
          IF bad = {} THEN NoError ELSE "this register may never be an oop">>

\* the loop of lines 91-100, added to the map
frame_loop(frame_map, map) ==
    map \o [k \in 1..bitmap_size(frame_map) |->
               round_entry(frame_map, k - 1, stack2reg((k - 1) * 2))]

\* <<the OopMap, the error>>; registerRefMap may be NULL
create_oop_map(debug_info) ==
    LET r == IF debug_info.registerRefMap # NullBitMap
             THEN register_loop(debug_info.registerRefMap)
             ELSE <<(<<>>), NoError>>
    IN  IF r[2] # NoError THEN r
        ELSE <<frame_loop(debug_info.frameRefMap, r[1]), NoError>>

(***************************************************************************)
(* The debug information recorder, as far as the installer sees it.  A pc  *)
(* descriptor holds the scope chain of its offset: describe_scope makes    *)
(* the scopes described before it at this offset the senders of the new    *)
(* scope, which becomes the head of the chain.                             *)
(***************************************************************************)
add_safepoint(rec, pc_offset, leaf_graph_id, map) ==
    Append(rec, [pc_offset |-> pc_offset, leaf_graph_id |-> leaf_graph_id, map |-> map,
                 chain |-> <<>>, pool |-> <<>>, open |-> TRUE, closed_at |-> <<>>])

dump_object_pool(rec, objects) == [rec EXCEPT ![Len(rec)].pool = objects]

describe_scope(rec, scope) == [rec EXCEPT ![Len(rec)].chain = <<scope>> \o @]

end_safepoint(rec, pc_offset) ==
    [rec EXCEPT ![Len(rec)].open = FALSE, ![Len(rec)].closed_at = <<pc_offset>>]

(***************************************************************************)
(* record_scope (lines 451-531).  A frame is [isFrame, caller, method,     *)
(* bci, should_reexecute, duringCall, rethrowException, numLocals,         *)
(* numStack, numLocks, values, leafGraphId]; caller is a frame or NoFrame; *)
(* should_reexecute is what the interpreter says of the bytecode at bci.   *)
(* The state is [cx, rec, locals, expressions, monitors].                  *)
(***************************************************************************)
NoFrame == [isFrame |-> FALSE, method |-> "null"]

\* a variant that keeps what the interpreter says of the bytecode
reexecute_of_bytecode(frame) ==
    IF frame.bci = -1 \/ frame.bci = -2 THEN FALSE ELSE frame.should_reexecute

\* lines 460-470
reexecute_of(frame) ==
    IF frame.bci = -1 \/ frame.bci = -2 THEN FALSE
    ELSE LET reexecute == frame.should_reexecute
         IN  IF frame # NoFrame THEN ~frame.duringCall ELSE reexecute

\* lines 496-500 and 502-506: the translation r of a value goes to a list, its
\* second slot before it
append_value(list, r) ==
    IF r.cx.error # NoError THEN list
    ELSE IF r.second # NULL THEN list \o <<r.second, r.value>>
    ELSE Append(list, r.value)

local_translated(st, r) ==
    [st EXCEPT !.cx = r.cx, !.second = r.second, !.locals = append_value(@, r)]

expression_translated(st, r) ==
    [st EXCEPT !.cx = r.cx, !.second = r.second, !.expressions = append_value(@, r)]

monitor_translated(st, r) ==
    [st EXCEPT !.cx = r.cx, !.second = NULL, !.monitors = append_value(@, r)]

\* one round of the loop of lines 492-516 at index i: the state after it
values_step(frame, i, total_frame_size, heap, st) ==
    IF i < frame.numLocals
    THEN local_translated(st, get_hotspot_value(frame.values[i + 1], total_frame_size,
                                                heap, st.cx))
    ELSE IF i < frame.numLocals + frame.numStack
    THEN expression_translated(st, get_hotspot_value(frame.values[i + 1],
                                                     total_frame_size, heap, st.cx))
    ELSE monitor_translated(st, get_monitor_value(frame.values[i + 1], total_frame_size,
                                                  heap, st.cx))

\* a variant that does not step over the placeholder of a two-slot value
skip_after_no_skip(frame, i, second) == [i |-> i + 1, error |-> NoError]

\* lines 511-515: the index after a round that left second
skip_after(frame, i, second) ==
    IF second # NULL
    THEN [i |-> i + 2,
          error |-> FirstError(<<
              assert(i + 1 < Len(frame.values),
                     "double-slot value not followed by Value.ILLEGAL"),
              IF i + 1 < Len(frame.values)
              THEN assert(frame.values[i + 2] = ILLEGAL,
                          "double-slot value not followed by Value.ILLEGAL")
              ELSE NoError>>)]
    ELSE [i |-> i + 1, error |-> NoError]

RECURSIVE values_loop(_, _, _, _, _)

\* lines 511-515 and the rounds after, st1 being the state after the round at i
values_next(frame, i, total_frame_size, heap, st1) ==
    LET nx == skip_after(frame, i, st1.second)
    IN  IF st1.cx.error # NoError THEN st1
        ELSE IF nx.error # NoError THEN [st1 EXCEPT !.cx.error = nx.error]
        ELSE values_loop(frame, nx.i, total_frame_size, heap, st1)

values_loop(frame, i, total_frame_size, heap, st) ==
    IF st.cx.error # NoError \/ i >= Len(frame.values) THEN st
    ELSE values_next(frame, i, total_frame_size, heap,
                     values_step(frame, i, total_frame_size, heap, st))

ScopeDesc(pc_offset, frame, st) ==
    [pc_offset |-> pc_offset, method |-> frame.method, bci |-> frame.bci,
     reexecute |-> reexecute_of(frame), rethrow_exception |-> frame.rethrowException,
     locals |-> st.locals, expressions |-> st.expressions, monitors |-> st.monitors]

\* lines 518-530, st being the state after the loop
describe_frame(pc_offset, frame, rs, st) ==
    IF st.cx.error # NoError THEN [rs EXCEPT !.cx = st.cx]
    ELSE [cx |-> st.cx,
          rec |-> describe_scope(dump_object_pool(rs.rec, st.cx.objects),
                                 ScopeDesc(pc_offset, frame, st))]

\* the current frame, after the caller chain: lines 458-530
record_frame(pc_offset, frame, total_frame_size, heap, rs) ==
    LET err == assert(frame.numLocals + frame.numStack + frame.numLocks
                          = Len(frame.values), "unexpected values length")
    IN  IF err # NoError THEN [rs EXCEPT !.cx.error = err]
        ELSE describe_frame(pc_offset, frame, rs,
                 values_loop(frame, 0, total_frame_size, heap,
                             [cx |-> rs.cx, second |-> NULL, locals |-> <<>>,
                              expressions |-> <<>>, monitors |-> <<>>]))

\* the current frame, rs1 being the state after the caller chain
after_caller(pc_offset, frame, total_frame_size, heap, rs1) ==
    IF rs1.cx.error # NoError THEN rs1
    ELSE record_frame(pc_offset, frame, total_frame_size, heap, rs1)

\* a variant that records the frame before it recurses into the caller
RECURSIVE record_scope_frame_first(_, _, _, _, _)
record_scope_frame_first(pc_offset, frame, total_frame_size, heap, rs) ==
    IF rs.cx.error # NoError \/ frame = NoFrame THEN rs
    ELSE record_scope_frame_first(pc_offset, frame.caller, total_frame_size, heap,
             record_frame(pc_offset, frame, total_frame_size, heap, rs))

\* lines 451-457: the caller chain is recorded first
RECURSIVE record_scope(_, _, _, _, _)
record_scope(pc_offset, frame, total_frame_size, heap, rs) ==
    LET err == assert(frame.isFrame, "BytecodeFrame expected")
    IN  IF rs.cx.error # NoError THEN rs
        ELSE IF err # NoError THEN [rs EXCEPT !.cx.error = err]
        ELSE after_caller(pc_offset, frame, total_frame_size, heap,
                 IF frame.caller # NoFrame
                 THEN record_scope(pc_offset, frame.caller, total_frame_size, heap, rs)
                 ELSE rs)

(***************************************************************************)
(* Inputs: the builds, and the debug information the compiler can hand     *)
(* over.                                                                   *)
(***************************************************************************)
\* this file is x86 code, which is little endian; ASSERT is set by debug builds
Builds == [ASSERT : BOOLEAN, VM_LITTLE_ENDIAN : {TRUE}, CodeEntryAlignment : {16}]
AnyEndianBuilds ==
    [ASSERT : BOOLEAN, VM_LITTLE_ENDIAN : BOOLEAN, CodeEntryAlignment : {16}]
\* CodeEntryAlignment is a setting of the VM: 16, or 32 where the server compiler
\* is built in
AnyAlignmentBuilds ==
    [ASSERT : BOOLEAN, VM_LITTLE_ENDIAN : {TRUE}, CodeEntryAlignment : {16, 32}]

\* CompilationResult::frameSize, and _total_frame_size (line 346)
frameSize == 2 * HeapWordSize
total_frame_size_of(frame_size) == frame_size + HeapWordSize

NoObject == <<"null">>

\* every shape and type of a single value
RegisterValues == {RegisterValue(t, n) : t \in BasicTypes, n \in {1, 17}}
StackSlots == {StackSlot(t, 8, FALSE) : t \in BasicTypes}
Constants == {Constant(t, jlong(0, 5), NoObject) : t \in BasicTypes}
SingleValues ==
    {ILLEGAL} \cup RegisterValues \cup StackSlots \cup Constants
        \cup {Constant("T_LONG", jlong(1, 5), <<"type", "K">>),
              Constant("T_INT", jlong(1, 5), NoObject),
              Constant("T_LONG", jlong(0, 5), <<"other">>),
              StackSlot("T_INT", 8, TRUE), VirtualObject(1), [tag |-> "Unknown"]}

\* the values of the frames whose lists are enumerated in full
TheMonitor == code_MonitorValue(StackSlot("T_OBJECT", 0, FALSE),
                                StackSlot("T_LONG", 16, FALSE), FALSE)
FrameValues ==
    {ILLEGAL, StackSlot("T_INT", 0, FALSE), RegisterValue("T_LONG", 0),
     StackSlot("T_DOUBLE", 8, TRUE), Constant("T_LONG", jlong(0, 5), NoObject),
     TheMonitor}

\* the sequences over S of length n, and of length at most n
RECURSIVE SeqsOfLen(_, _)
SeqsOfLen(S, n) ==
    IF n = 0 THEN {<<>>}
    ELSE {Append(q, x) : q \in SeqsOfLen(S, n - 1), x \in S}
SeqsUpTo(S, n) == UNION {SeqsOfLen(S, k) : k \in 0..n}

\* heaps of virtual objects: ref 1 and ref 2 refer to each other and ref 1 to
\* itself, ref 3 is another VirtualObject with the id of ref 1, ref 4 a long array
CyclicHeap ==
    <<[id |-> 0, isLongArray |-> FALSE,
       values |-> <<VirtualObject(2), VirtualObject(1), RegisterValue("T_LONG", 1)>>],
      [id |-> 1, isLongArray |-> FALSE, values |-> <<VirtualObject(1)>>],
      [id |-> 0, isLongArray |-> FALSE, values |-> <<RegisterValue("T_INT", 0)>>],
      [id |-> 2, isLongArray |-> TRUE,
       values |-> <<RegisterValue("T_INT", 0), Constant("T_LONG", jlong(0, 5), NoObject),
                    VirtualObject(2)>>]>>
DagHeap ==
    <<[id |-> 0, isLongArray |-> FALSE, values |-> <<VirtualObject(2), VirtualObject(2)>>],
      [id |-> 1, isLongArray |-> FALSE, values |-> <<RegisterValue("T_INT", 0)>>],
      [id |-> 2, isLongArray |-> FALSE, values |-> <<VirtualObject(1), VirtualObject(2)>>],
      [id |-> 3, isLongArray |-> TRUE, values |-> <<VirtualObject(3)>>]>>
Heaps == {CyclicHeap, DagHeap}
HeapRefs == 1..4

Frame(method, bci, should_reexecute, duringCall, nLocals, nStack, nLocks, values, caller) ==
    [isFrame |-> TRUE, caller |-> caller, method |-> method, bci |-> bci,
     should_reexecute |-> should_reexecute, duringCall |-> duringCall,
     rethrowException |-> FALSE, numLocals |-> nLocals, numStack |-> nStack,
     numLocks |-> nLocks, values |-> values, leafGraphId |-> 0]

\* a frame of the plain kind: only the value list and its partition vary
PlainFrame(method, nLocals, nStack, nLocks, values, caller) ==
    Frame(method, 0, FALSE, FALSE, nLocals, nStack, nLocks, values, caller)

\* the partitions of a list of n values, those the producer promises (the
\* counts add up to n) and those that leave one value over
\* one frame, every value list of at most MaxValues values, every partition
ListFrames ==
    {PlainFrame("m", x[2][1], x[2][2], x[2][3], x[1], NoFrame) :
        x \in {y \in SeqsUpTo(FrameValues, MaxValues)
                        \X ((0..MaxValues) \X (0..MaxValues) \X (0..MaxValues)) :
                   y[2][1] + y[2][2] + y[2][3] \in {Len(y[1]), Len(y[1]) - 1}}}

\* one frame holding one value of any shape, alone or before a placeholder
ValueFrames ==
    {PlainFrame("m", Len(vs) - k, k, 0, vs, NoFrame) :
        <<vs, k>> \in {<<v>> : v \in SingleValues} \X {0, 1}}
    \cup {PlainFrame("m", 2 - 2 * k, 2 * k, 0, <<v, ILLEGAL>>, NoFrame) :
        v \in SingleValues, k \in {0, 1}}

\* one frame, every bytecode index and flag
BciFrames ==
    {Frame("m", bci, sr, dc, 1, 0, 0, <<RegisterValue("T_INT", 0)>>, NoFrame) :
        bci \in {-2, -1, 0, 3}, sr \in BOOLEAN, dc \in BOOLEAN}

\* the frames of a chain: they mention virtual objects, some twice
ChainValues ==
    {<<VirtualObject(1)>>, <<VirtualObject(3), VirtualObject(2)>>,
     <<VirtualObject(4), RegisterValue("T_LONG", 1), ILLEGAL>>}
\* the method of a frame that has depth - 1 callers above it
ChainMethods == <<"A", "B", "C", "D", "E", "F">>

RECURSIVE Chains(_)
Chains(depth) ==
    IF depth = 0 THEN {NoFrame}
    ELSE {PlainFrame(ChainMethods[depth], Len(vs), 0, 0, vs, c) :
            vs \in ChainValues, c \in Chains(depth - 1)}

ChainFrames == UNION {Chains(d) : d \in 1..MaxDepth}

ScopeInputs ==
    {[frame |-> f, heap |-> CyclicHeap] : f \in ListFrames \cup ValueFrames \cup BciFrames}
    \cup {[frame |-> f, heap |-> h] : f \in ChainFrames, h \in Heaps}

(***************************************************************************)
(* The state before an installation, shared by the specifications.         *)
(***************************************************************************)
MARK_INVOKE_INVALID == "MARK_INVOKE_INVALID"
NoSite == [kind |-> "none"]

Fresh ==
    /\ sites_length = 0
    /\ site_index = 0
    /\ site = NoSite
    /\ next_call_type = MARK_INVOKE_INVALID
    /\ invoke_mark_pc = -1
    /\ recorder = <<>>
    /\ arena = 0
    /\ store = <<>>
    /\ oop_recorder = {}
    /\ relocs = <<>>
    /\ patches = <<>>
    /\ consts_end = 0
    /\ offsets = <<>>
    /\ implicit_table = <<>>
    /\ handler_table = <<>>
    /\ dependencies = <<>>
    /\ no_safepoint = FALSE
    /\ registered = FALSE
    /\ fatal_error = NoError

installer_vars == <<sites_length, site_index, site, next_call_type, invoke_mark_pc,
                    recorder, arena, store, oop_recorder, relocs, patches, consts_end, offsets,
                    implicit_table, handler_table, dependencies, no_safepoint,
                    registered, fatal_error>>

(***************************************************************************)
(* SpecScope: the scope recorder on one frame chain, as site_Safepoint     *)
(* runs it (lines 539-544) with a fresh seen-objects list.                 *)
(***************************************************************************)
ScopePc == HeapWordSize

InitScope ==
    /\ build \in Builds
    /\ pc = "call"
    /\ inp \in ScopeInputs
    /\ out = [called |-> FALSE]
    /\ Fresh

RecordScope ==
    /\ pc = "call"
    /\ pc' = "done"
    /\ \E rs \in {record_scope(ScopePc, inp.frame, total_frame_size_of(frameSize), inp.heap,
                                [cx |-> Context(0, <<>>, <<>>, {}),
                                 rec |-> add_safepoint(<<>>, ScopePc, -1, <<>>)])} :
          out' = [called |-> TRUE, cx |-> rs.cx, rec |-> rs.rec]
    /\ UNCHANGED <<build, inp, installer_vars>>

NextScope == RecordScope

SpecScope == InitScope /\ [][NextScope]_vars

(***************************************************************************)
(* Properties of the scope recorder (SpecScope).                           *)
(***************************************************************************)
RECURSIVE Depth(_)
Depth(frame) == IF frame = NoFrame THEN 0 ELSE 1 + Depth(frame.caller)

\* the frame k - 1 caller links away from the frame: FrameAt(f, 1) is f itself
RECURSIVE FrameAt(_, _)
FrameAt(frame, k) == IF k = 1 THEN frame ELSE FrameAt(frame.caller, k - 1)

ScopeRecorded == pc = "done" /\ out.called /\ out.cx.error = NoError
RecordedChain == out.rec[1].chain

\* C4: a BytecodePosition chain of depth n gives exactly n scope entries, all at
\* the code offset of the site; the callers are recorded before the frame, and
\* the scope chain of the offset runs from the innermost frame, the one the debug
\* info names, to the outermost.
C4_ScopeChainInnermostFirst ==
    ScopeRecorded =>
        /\ Len(RecordedChain) = Depth(inp.frame)
        /\ \A k \in 1..Len(RecordedChain) :
              /\ RecordedChain[k].pc_offset = ScopePc
              /\ RecordedChain[k].method = FrameAt(inp.frame, k).method
              /\ Len(RecordedChain[k].locals) >= FrameAt(inp.frame, k).numLocals - 1

\* A calls B calls C: the debug info names C, whose caller is B, whose caller is A
C4_Witness ==
    /\ ScopeRecorded
    /\ Depth(inp.frame) = 3
    /\ Len(RecordedChain) = 3
    /\ <<inp.frame.method, inp.frame.caller.method, inp.frame.caller.caller.method>>
           = <<"C", "B", "A">>
    /\ [k \in 1..3 |-> RecordedChain[k].method] = <<"C", "B", "A">>

\* C19: a frame whose bytecode index is -1 or -2 is recorded with reexecute false
\* whatever its duringCall flag; for every other bytecode index the recorded flag
\* is the negation of duringCall, whatever the interpreter says of the bytecode at
\* the index.
C19_ReexecuteFromBciAndDuringCall ==
    ScopeRecorded =>
        \A k \in 1..Len(RecordedChain) :
            LET frame == FrameAt(inp.frame, k)
            IN  RecordedChain[k].reexecute
                    = IF frame.bci \in {-1, -2} THEN FALSE ELSE ~frame.duringCall

\* a bytecode the interpreter would not reexecute, not during a call: reexecute
C19_Witness ==
    /\ ScopeRecorded
    /\ inp.frame.bci = 3
    /\ ~inp.frame.should_reexecute
    /\ ~inp.frame.duringCall
    /\ Len(RecordedChain) = 1
    /\ RecordedChain[1].reexecute
    /\ RecordedChain[1].bci = 3

\* the values of a frame up to index i are all virtual objects
OnlyObjectsUpTo(frame, i) == \A j \in 1..i : frame.values[j].tag = "VirtualObject"

\* C5: within the scope recording of one site, every mention of a virtual object
\* id - in one frame, in several frames of the chain, in the fields of virtual
\* objects - is translated to the one ObjectValue of that id, and the
\* seen-objects list holds no id twice.
C5_SameIdSameInstance ==
    ScopeRecorded =>
        LET st == out.cx.store
            objs == out.cx.objects
        IN  /\ \A i, j \in 1..Len(objs) : st[objs[i]].id = st[objs[j]].id => i = j
            /\ \A h1, h2 \in DOMAIN st : st[h1].id = st[h2].id => h1 = h2
            /\ \A h \in DOMAIN st : \E i \in 1..Len(objs) : objs[i] = h
            /\ \A h \in DOMAIN st : \A i \in 1..Len(st[h].field_values) :
                  st[h].field_values[i].sv = "Object"
                      => st[h].field_values[i].h \in DOMAIN st
            /\ \A k \in 1..Len(RecordedChain) :
                  \A i \in 1..(FrameAt(inp.frame, k).numLocals + FrameAt(inp.frame, k).numStack) :
                      OnlyObjectsUpTo(FrameAt(inp.frame, k), i)
                          => LET sv == (RecordedChain[k].locals
                                            \o RecordedChain[k].expressions)[i]
                             IN  /\ sv.sv = "Object"
                                 /\ st[sv.h].id
                                        = inp.heap[FrameAt(inp.frame, k).values[i].ref].id

\* id 0 is mentioned by the caller (ref 1), by the frame through another
\* VirtualObject of the same id (ref 3) and in the fields of ref 1 and ref 2
C5_Witness ==
    /\ ScopeRecorded
    /\ inp.heap = CyclicHeap
    /\ Depth(inp.frame) >= 2
    /\ inp.frame.values = <<VirtualObject(3), VirtualObject(2)>>
    /\ inp.frame.caller.values = <<VirtualObject(1)>>
    /\ RecordedChain[1].locals[1] = RecordedChain[2].locals[1]
    /\ out.cx.store[RecordedChain[1].locals[1].h].field_values[2] = RecordedChain[1].locals[1]

\* a frame that holds one value, alone or before one ILLEGAL placeholder, all
\* of it locals or all of it expressions
IsValueFrame(frame) ==
    /\ frame.caller = NoFrame
    /\ frame.numLocks = 0
    /\ Len(frame.values) \in {1, 2}
    /\ Len(frame.values) = 2 => frame.values[2] = ILLEGAL
    /\ frame.numLocals + frame.numStack = Len(frame.values)
    /\ frame.numLocals = 0 \/ frame.numStack = 0

\* the list the values of such a frame went to
ValueList == IF inp.frame.numLocals > 0 THEN RecordedChain[1].locals
             ELSE RecordedChain[1].expressions

\* wide as the kind says: a long or double register, stack slot or constant
WideByKind(v) ==
    v.tag \in {"Register", "StackSlot", "Constant"} /\ v.type \in {"T_LONG", "T_DOUBLE"}

\* the values that get a second slot: a long in a CPU register, a double in an
\* XMM register, a long or double stack slot or constant
TwoSlot(v) ==
    \/ v.tag = "Register" /\ v.number < 16 /\ v.type = "T_LONG"
    \/ v.tag = "Register" /\ v.number >= 16 /\ v.type = "T_DOUBLE"
    \/ v.tag \in {"StackSlot", "Constant"} /\ v.type \in {"T_LONG", "T_DOUBLE"}

\* a is the second slot of the value v and b its primary scope value
SecondThenPrimary(a, b, v) ==
    IF v.tag = "Constant"
    THEN a.sv = "ConstantInt" /\ a.value = 0
         /\ b.sv = "ConstantLong" /\ b.value = v.primitive /\ a.h # b.h
    ELSE a = b /\ b.sv = "Location" /\ b.type \in {"lng", "dbl"}

\* the values W has are recorded as two consecutive scope values, the second
\* slot and then the primary value, and all others as one scope value only
SlotsAsWide(W(_)) ==
    (ScopeRecorded /\ IsValueFrame(inp.frame)) =>
        LET v == inp.frame.values[1]
            L == ValueList
        IN  IF W(v)
            THEN Len(L) = 2 /\ SecondThenPrimary(L[1], L[2], v)
            ELSE /\ Len(L) = Len(inp.frame.values)
                 /\ Len(L) = 2 =>
                       /\ L[2].sv = "Location" /\ L[2].type = "invalid"
                       /\ L[2].h # L[1].h

SameList(frame, i, j) ==
    LET part(x) == IF x <= frame.numLocals THEN 1
                   ELSE IF x <= frame.numLocals + frame.numStack THEN 2 ELSE 3
    IN  part(i) = part(j)

\* the input invariants of a frame's value list
WellFormedValues(frame) ==
    /\ frame.numLocals + frame.numStack + frame.numLocks = Len(frame.values)
    /\ \A i \in 1..Len(frame.values) :
          WideByKind(frame.values[i])
              => /\ i + 1 <= Len(frame.values)
                 /\ frame.values[i + 1] = ILLEGAL
                 /\ SameList(frame, i, i + 1)

\* C9: a frame whose value list keeps the input invariants is recorded with
\* exactly numLocals local scope values, numStack expression scope values and
\* numLocks monitor values.
C9_CountsMatchPartition ==
    (ScopeRecorded /\ inp.frame.caller = NoFrame /\ WellFormedValues(inp.frame)) =>
        /\ Len(RecordedChain) = 1
        /\ Len(RecordedChain[1].locals) = inp.frame.numLocals
        /\ Len(RecordedChain[1].expressions) = inp.frame.numStack
        /\ Len(RecordedChain[1].monitors) = inp.frame.numLocks

\* [RegisterValue(r0, long), Illegal, StackSlot(0, int)], 2 locals, 1 expression
C9_Witness ==
    /\ ScopeRecorded
    /\ inp.frame.values = <<RegisterValue("T_LONG", 0), ILLEGAL, StackSlot("T_INT", 0, FALSE)>>
    /\ inp.frame.numLocals = 2 /\ inp.frame.numStack = 1 /\ inp.frame.numLocks = 0
    /\ Len(RecordedChain[1].locals) = 2
    /\ RecordedChain[1].locals[1] = RecordedChain[1].locals[2]
    /\ Len(RecordedChain[1].expressions) = 1

(***************************************************************************)
(* SpecOopMap: the reference-map decoder on one pair of reference maps.    *)
(* The register map has one word, with bits among those of the CPU         *)
(* registers, that of the first XMM register and one beyond NUM_REGS, or   *)
(* is absent; the frame map has one or two words.                          *)
(***************************************************************************)
MaxSetBits == 2

SmallSubsets(S) == {T \in SUBSET S : Cardinality(T) <= MaxSetBits}

RegisterRefMaps ==
    {NullBitMap}
    \cup {GraalBitMap(<<T>>) :
             T \in SmallSubsets(0..(NUM_CPU_REGS - 1) \cup {NUM_CPU_REGS, NUM_REGS + 8})}
FrameRefMaps ==
    {GraalBitMap(<<T>>) : T \in SUBSET {0, 1, MapWordBits - 1}}
    \cup {GraalBitMap(<<T, U>>) : T \in SUBSET {0, MapWordBits - 1}, U \in SUBSET {5}}

OopMapInputs ==
    [registerRefMap : RegisterRefMaps, frameRefMap : FrameRefMaps]

InitOopMap ==
    /\ build \in Builds
    /\ pc = "call"
    /\ inp \in OopMapInputs
    /\ out = [called |-> FALSE]
    /\ Fresh

CreateOopMap ==
    /\ pc = "call"
    /\ pc' = "done"
    /\ LET r == create_oop_map(inp)
       IN  out' = [called |-> TRUE, map |-> r[1], error |-> r[2]]
    /\ UNCHANGED <<build, inp, installer_vars>>

NextOopMap == CreateOopMap

SpecOopMap == InitOopMap /\ [][NextOopMap]_vars

OopMapCreated == pc = "done" /\ out.called /\ out.error = NoError

\* the bits set in a reference map
SetBits(bit_map) ==
    IF bit_map = NullBitMap THEN {}
    ELSE {i \in 0..(bitmap_size(bit_map) - 1) : is_bit_set(bit_map, i)}

\* the entries of the map for a location
EntriesOf(map, reg) == {k \in 1..Len(map) : map[k].reg = reg}

DisallowedBits(bit_map) ==
    {i \in SetBits(bit_map) : i < NUM_CPU_REGS /\ ~OOP_ALLOWED[i + 1]}

\* C11: when the register reference map has a bit set for a register that may
\* not hold a reference (rsp, rbp, r10), create_oop_map ends in a fatal error
\* and does not record that register as a reference root.
C11_DisallowedBitIsFatal ==
    (pc = "done" /\ out.called /\ DisallowedBits(inp.registerRefMap) # {})
        => out.error # NoError

(***************************************************************************)
(* The installer.  Its fields, while the sites are dispatched, are the     *)
(* record [next_call_type, invoke_mark_pc, recorder, arena, store,         *)
(* oop_recorder, relocs, patches, consts_end, offsets, implicit_table,     *)
(* error]; a handler maps it to the record after the site.                 *)
(***************************************************************************)
NoDebugInfo == [isNull |-> TRUE]
DebugInfo(registerRefMap, frameRefMap, bytecodePosition, heap) ==
    [isNull |-> FALSE, registerRefMap |-> registerRefMap, frameRefMap |-> frameRefMap,
     bytecodePosition |-> bytecodePosition, heap |-> heap]

\* the raw code: the instruction at each code offset a site may name
\* (the call of an inline cache: mov rax, 0; call; then a jump and a load)
TargetCode ==
    (0 :> [kind |-> "mov_literal64", size |-> 10])
    @@ (10 :> [kind |-> "call", size |-> 5])
    @@ (15 :> [kind |-> "jump", size |-> 5])
    @@ (20 :> [kind |-> "mov_mem", size |-> 8])
    @@ (28 :> [kind |-> "call_reg", size |-> 3])

\* relocate(at, spec, format): one more relocation record
relocate(s, at, type, format) ==
    [s EXCEPT !.relocs = Append(@, [at |-> at, type |-> type, format |-> format])]

\* a write into the code: one more patch
patch(s, at, op, v) ==
    [s EXCEPT !.patches = Append(@, [at |-> at, op |-> op, value |-> v])]

Fail(s, err) == [s EXCEPT !.error = err]

\* the installer after record_scope left rs
scope_recorded(s, rs) ==
    [s EXCEPT !.recorder = rs.rec, !.arena = rs.cx.arena, !.store = rs.cx.store,
              !.oop_recorder = rs.cx.metadata, !.error = rs.cx.error]

\* a variant that goes on with the seen-objects list of the site before
new_objects_of_last_site(s) ==
    IF s.recorder = <<>> THEN <<>> ELSE s.recorder[Len(s.recorder)].pool

\* new GrowableArray<ScopeValue*>(): the seen-objects list of a site is empty
new_objects(s) == <<>>

\* add_safepoint with the oop map m, then record_scope with a new seen-objects
\* list (lines 541-542 and 598-599)
safepoint_mapped(s, pc_offset, leaf_graph_id, debug_info, m) ==
    IF m[2] # NoError THEN Fail(s, m[2])
    ELSE scope_recorded(s,
             record_scope(pc_offset, debug_info.bytecodePosition,
                          total_frame_size_of(frameSize), debug_info.heap,
                          [cx |-> Context(s.arena, s.store, new_objects(s), s.oop_recorder),
                           rec |-> add_safepoint(s.recorder, pc_offset, leaf_graph_id,
                                                 m[1])]))

\* lines 539-542 and 597-599
record_safepoint(s, pc_offset, leaf_graph_id, debug_info) ==
    safepoint_mapped(s, pc_offset, leaf_graph_id, debug_info, create_oop_map(debug_info))

\* a variant in which a safepoint clears the pending call type
safepoint_end_resets(s, pc_offset) ==
    IF s.error # NoError THEN s
    ELSE [s EXCEPT !.recorder = end_safepoint(@, pc_offset),
                   !.next_call_type = "MARK_INVOKE_INVALID"]

\* line 544
safepoint_end(s, pc_offset) ==
    IF s.error # NoError THEN s ELSE [s EXCEPT !.recorder = end_safepoint(@, pc_offset)]

\* site_Safepoint (lines 533-545); the site has debug info
site_Safepoint(s, pc_offset, st) ==
    safepoint_end(record_safepoint(s, pc_offset, -1, st.debugInfo), pc_offset)

(***************************************************************************)
(* site_Call (lines 547-672).  The target is [klass, ...], klass one of    *)
(* "Long" (a runtime stub), "HotSpotResolvedJavaMethod" and                *)
(* "HotSpotInstalledCode".                                                 *)
(***************************************************************************)
NativeCall_instruction_size == 5
NativeMovConstReg_instruction_size == 10

\* lines 564-584: [next_pc_offset, error]
next_pc_offset_of(pc_offset, inst, hotspot_method) ==
    IF inst.kind \in {"call", "jump"}
    THEN [next |-> pc_offset + NativeCall_instruction_size, error |-> NoError]
    ELSE IF inst.kind = "mov_literal64"
    THEN [next |-> pc_offset + NativeMovConstReg_instruction_size + 3,
          error |-> assert((pc_offset + NativeMovConstReg_instruction_size) \in DOMAIN TargetCode
                           /\ TargetCode[pc_offset + NativeMovConstReg_instruction_size].kind
                                  = "call_reg",
                           "expected call with rex/rexb prefix byte")]
    ELSE IF inst.kind = "call_reg"
    THEN [next |-> pc_offset + inst.size,
          error |-> assert(hotspot_method, "only valid for virtual calls")]
    ELSE [next |-> 0, error |-> fatal("unsupported type of instruction for call site")]

\* a variant that registers a safepoint for the jump
call_installed_code_safepoint(s, pc_offset, inst, target) ==
    [s EXCEPT !.recorder = add_safepoint(@, pc_offset, -1, <<>>),
              !.patches = Append(@, [at |-> pc_offset, op |-> "set_jump_destination",
                                     value |-> <<"verified_entry_point", target.nmethod>>])]

\* lines 586-594: the target is installed code
call_installed_code(s, pc_offset, inst, target) ==
    LET err == assert(inst.kind = "jump", "jump expected")
    IN  IF err # NoError THEN Fail(s, err)
        ELSE relocate(patch(s, pc_offset, "set_jump_destination",
                            <<"verified_entry_point", target.nmethod>>),
                      pc_offset, "runtime_call", "call32_operand")

\* lines 602-620: the target is a runtime stub
call_global_stub(s, pc_offset, inst, target) ==
    IF inst.kind = "call"
    THEN relocate(patch(s, pc_offset, "set_destination", <<"stub", target.value>>),
                  pc_offset, "runtime_call", "call32_operand")
    ELSE IF inst.kind = "mov_literal64"
    THEN relocate(patch(s, pc_offset, "set_data", <<"stub", target.value>>),
                  pc_offset, "runtime_call", "imm_operand")
    ELSE relocate(patch(s, pc_offset, "set_jump_destination", <<"stub", target.value>>),
                  pc_offset, "runtime_call", "call32_operand")

\* lines 623-629, 639, 647 and 655: a resolved method fits the invoke
method_assert(call_type, target) ==
    IF target.klass # "HotSpotResolvedJavaMethod" THEN NoError
    ELSE IF call_type \in {"MARK_INVOKEVIRTUAL", "MARK_INVOKEINTERFACE"}
    THEN assert(~target.is_static, "cannot call static method with invokeinterface")
    ELSE IF call_type = "MARK_INVOKESTATIC"
    THEN assert(target.is_static, "cannot call non-static method with invokestatic")
    ELSE IF call_type = "MARK_INVOKESPECIAL"
    THEN assert(~target.is_static, "cannot call static method with invokespecial")
    ELSE NoError

\* the call types whose case of the switch patches the call
ResolvedCallTypes ==
    {"MARK_INVOKEVIRTUAL", "MARK_INVOKEINTERFACE", "MARK_INVOKESTATIC", "MARK_INVOKESPECIAL"}

\* a variant in which every call is resolved as a virtual call
resolve_stub_all_virtual(call_type) == "resolve_virtual_call_stub"

\* lines 642, 650 and 658: the stub of SharedRuntime the call is sent to
resolve_stub(call_type) ==
    CASE call_type \in {"MARK_INVOKEVIRTUAL", "MARK_INVOKEINTERFACE"}
             -> "resolve_virtual_call_stub"
      [] call_type = "MARK_INVOKESTATIC" -> "resolve_static_call_stub"
      [] call_type = "MARK_INVOKESPECIAL" -> "resolve_opt_virtual_call_stub"

\* lines 643, 651 and 659: the relocation of the call
call_relocation(call_type, mark_pc) ==
    CASE call_type \in {"MARK_INVOKEVIRTUAL", "MARK_INVOKEINTERFACE"}
             -> <<"virtual_call", mark_pc>>
      [] call_type = "MARK_INVOKESTATIC" -> <<"static_call">>
      [] call_type = "MARK_INVOKESPECIAL" -> <<"opt_virtual_call">>

\* a variant that lets a call with no pending call type pass
invalid_call_type_ignored(s) == s

\* lines 662-665
invalid_call_type(s) == Fail(s, fatal("invalid _next_call_type value"))

\* lines 630-666: the switch on _next_call_type
call_method(s, pc_offset, target, debug_info) ==
    LET err == FirstError(<<assert(~debug_info.isNull, "debug info expected"),
                            method_assert(s.next_call_type, target)>>)
    IN  IF err # NoError THEN Fail(s, err)
        ELSE IF s.next_call_type = "MARK_INLINE_INVOKEVIRTUAL" THEN s
        ELSE IF s.next_call_type \in ResolvedCallTypes
        THEN relocate(patch(s, pc_offset, "set_destination",
                            <<resolve_stub(s.next_call_type)>>),
                      pc_offset, call_relocation(s.next_call_type, s.invoke_mark_pc),
                      "call32_operand")
        ELSE invalid_call_type(s)

\* a variant that leaves the safepoint of the call open
call_end_leaves_open(s, next_pc, st) ==
    IF s.error # NoError THEN s ELSE [s EXCEPT !.next_call_type = "MARK_INVOKE_INVALID"]

\* lines 668-671, s being the installer after the patch
call_end(s, next_pc, st) ==
    IF s.error # NoError THEN s
    ELSE [s EXCEPT !.next_call_type = "MARK_INVOKE_INVALID",
                   !.recorder = IF ~st.debugInfo.isNull
                                THEN end_safepoint(@, next_pc) ELSE @]

\* lines 602-666, s being the installer after the debug info was recorded
call_patch(s, pc_offset, inst, st) ==
    IF s.error # NoError THEN s
    ELSE IF st.target.klass = "Long" THEN call_global_stub(s, pc_offset, inst, st.target)
    ELSE call_method(s, pc_offset, st.target, st.debugInfo)

\* lines 596-672, for a target that is no installed code
call_resolve(s, pc_offset, next_pc, inst, st) ==
    call_end(call_patch(IF ~st.debugInfo.isNull
                        THEN record_safepoint(s, next_pc,
                                              st.debugInfo.bytecodePosition.leafGraphId,
                                              st.debugInfo)
                        ELSE s,
                        pc_offset, inst, st),
             next_pc, st)

site_Call(s, pc_offset, st) ==
    LET inst == TargetCode[pc_offset]
        hotspot_method == st.target.klass # "Long"
        nx == next_pc_offset_of(pc_offset, inst, hotspot_method)
    IN  IF nx.error # NoError THEN Fail(s, nx.error)
        ELSE IF st.target.klass = "HotSpotInstalledCode"
        THEN call_installed_code(s, pc_offset, inst, st.target)
        ELSE call_resolve(s, pc_offset, nx.next, inst, st)

(***************************************************************************)
(* site_DataPatch (lines 674-734).                                         *)
(***************************************************************************)
\* Kind::typeChar of the kind of a constant
typeChar(constant) ==
    CASE constant.type = "T_BOOLEAN" -> "z"
      [] constant.type = "T_BYTE" -> "b"
      [] constant.type = "T_SHORT" -> "s"
      [] constant.type = "T_CHAR" -> "c"
      [] constant.type = "T_INT" -> "i"
      [] constant.type = "T_FLOAT" -> "f"
      [] constant.type = "T_LONG" -> "j"
      [] constant.type = "T_DOUBLE" -> "d"
      [] constant.type \in {"T_OBJECT", "T_ARRAY"} -> "a"
      [] OTHER -> "-"

\* _constants->alignment(): the alignment of the begin of the constants section
constants_alignment ==
    IF build.CodeEntryAlignment > BytesPerLong THEN build.CodeEntryAlignment
    ELSE BytesPerLong

align_size_up(size, alignment) == ((size + alignment - 1) \div alignment) * alignment

\* _constants->start() and _instructions->start(), as addresses within the code
\* buffer: the constants section comes first and has room for the estimate of
\* line 350, the instructions follow it
constants_start == 0
instructions_start == constants_start + MaxSites * (BytesPerLong * 2)

\* Assembler::locate_next_instruction
locate_next_instruction(instruction) ==
    instruction + TargetCode[instruction - instructions_start].size

\* (jint) disp: a displacement within one code buffer fits in 32 bits
jint_MIN == -2147483647 - 1
jint_MAX == 2147483647
disp_fits(disp) == jint_MIN <= disp /\ disp <= jint_MAX

\* a variant that takes the displacement from the instruction itself
disp_of_from_instruction(dest, instruction) == dest - instruction

\* line 710: long disp = dest - next_instruction
disp_of(dest, instruction) == dest - locate_next_instruction(instruction)

\* lines 708-716: the constant is stored at dest, its displacement in the operand
constant_stored(s, pc_offset, constant, size) ==
    LET instruction == instructions_start + pc_offset
        dest == constants_start + size
        disp == disp_of(dest, instruction)
        err == assert(disp_fits(disp), "disp doesn't fit in 32 bits")
        s1 == patch(patch([s EXCEPT !.consts_end = size + BytesPerLong],
                          <<"consts", size>>, "store_jlong", constant.primitive),
                    pc_offset, "disp32_operand", disp)
    IN  IF err # NoError THEN Fail(s, err)
        ELSE relocate(s1, pc_offset, <<"section_word", "SECT_CONSTS", dest>>,
                      "disp32_operand")

\* lines 699-716: the constant goes to the constants section
data_in_constants(s, pc_offset, constant, alignment) ==
    LET err == IF alignment > 0
               THEN guarantee(alignment <= constants_alignment,
                              "Alignment inside constants section is restricted")
               ELSE NoError
    IN  IF err # NoError THEN Fail(s, err)
        ELSE constant_stored(s, pc_offset, constant,
                             IF alignment > 0 THEN align_size_up(s.consts_end, alignment)
                             ELSE s.consts_end)

site_DataPatch(s, pc_offset, st) ==
    LET c == typeChar(st.constant)
        cx == record_metadata_in_constant(st.constant,
                                          Context(s.arena, s.store, <<>>, s.oop_recorder))
        s1 == [s EXCEPT !.oop_recorder = cx.metadata]
    IN  IF c \in {"z", "b", "s", "c", "i"}
        THEN Fail(s, fatal("int-sized values not expected in DataPatch"))
        ELSE IF c \in {"f", "j", "d"}
        THEN IF cx.error # NoError THEN Fail(s, cx.error)
             ELSE IF st.inlined
             THEN patch(s1, pc_offset, "imm_operand", st.constant.primitive)
             ELSE data_in_constants(s1, pc_offset, st.constant, st.alignment)
        ELSE IF c = "a"
        THEN relocate(patch(s, pc_offset, "imm_operand", st.constant.object),
                      pc_offset, "oop", "imm_operand")
        ELSE Fail(s, fatal("unexpected Kind in DataPatch"))

(***************************************************************************)
(* site_Mark (lines 736-842).  The site is [id, references, byte_skip,     *)
(* data]: id is the mark or NoId, references the code offsets of the       *)
(* referenced sites, byte_skip the byte of the code two before the mark    *)
(* and data what the instruction at the mark holds.                        *)
(***************************************************************************)
NoId == "null"
EntryMarks ==
    [MARK_UNVERIFIED_ENTRY |-> "Entry", MARK_VERIFIED_ENTRY |-> "Verified_Entry",
     MARK_OSR_ENTRY |-> "OSR_Entry", MARK_EXCEPTION_HANDLER_ENTRY |-> "Exceptions",
     MARK_DEOPT_HANDLER_ENTRY |-> "Deopt"]
InvokeMarks ==
    {"MARK_INVOKEVIRTUAL", "MARK_INVOKEINTERFACE", "MARK_INLINE_INVOKEVIRTUAL",
     "MARK_INVOKE_INVALID", "MARK_INVOKESPECIAL", "MARK_INVOKESTATIC"}

\* the ids that have a case in the switch of site_Mark
KnownMarkIds ==
    DOMAIN EntryMarks \cup InvokeMarks
    \cup {"MARK_STATIC_CALL_STUB", "MARK_IMPLICIT_NULL", "MARK_POLL_NEAR", "MARK_POLL_FAR",
          "MARK_POLL_RETURN_NEAR", "MARK_POLL_RETURN_FAR", "MARK_KLASS_PATCHING",
          "MARK_ACCESS_FIELD_PATCHING", "MARK_DUMMY_OOP_RELOCATION"}

\* _offsets.set_value
set_value_offsets(o, which, pc_offset) ==
    [w \in DOMAIN o \cup {which} |-> IF w = which THEN pc_offset ELSE o[w]]

\* lines 762-769
mark_static_call_stub(s, pc_offset, st) ==
    LET s1 == relocate(s, pc_offset, "metadata", "imm_operand")
        err == assert(Len(st.references) = 1, "static call stub needs one reference")
    IN  IF err # NoError THEN Fail(s1, err)
        ELSE relocate(s1, pc_offset, <<"static_stub", st.references[1]>>, "none")

\* lines 770-784
mark_invoke(s, pc_offset, st) ==
    LET inline_cache == st.id \in {"MARK_INVOKEVIRTUAL", "MARK_INVOKEINTERFACE"}
        err == IF inline_cache
               THEN assert(st.data = 0, "inline cache Klass* initial value should be 0L")
               ELSE NoError
        s1 == IF inline_cache THEN patch(s, pc_offset, "set_data", <<"non_oop_word">>)
              ELSE s
    IN  IF err # NoError THEN Fail(s, err)
        ELSE [s1 EXCEPT !.next_call_type = st.id, !.invoke_mark_pc = pc_offset]

\* lines 788-805
mark_poll(s, pc_offset, st) ==
    LET near == st.id \in {"MARK_POLL_NEAR", "MARK_POLL_RETURN_NEAR"}
        s1 == IF near THEN patch(s, pc_offset, "disp32_operand", <<"polling_page">>) ELSE s
    IN  relocate(s1, pc_offset,
                 IF st.id \in {"MARK_POLL_NEAR", "MARK_POLL_FAR"}
                 THEN "poll" ELSE "poll_return", "none")

\* lines 806-829: the bytes before the mark are unsigned chars
mark_patching(s, pc_offset, st) ==
    LET i_byte_count == st.references[2] - st.references[1]
        byte_count == i_byte_count % 256
        err == FirstError(<<
                   assert(st.byte_skip = 5, "unexpected byte_skip"),
                   assert(Len(st.references) = 2, "needs 2 references"),
                   assert(i_byte_count = byte_count, "invalid offset"),
                   IF st.id = "MARK_ACCESS_FIELD_PATCHING"
                   THEN assert(st.data = "max_jint", "unexpected offset value")
                   ELSE NoError>>)
        s1 == patch(patch(s, pc_offset - 1, "byte", byte_count),
                    pc_offset - 3, "byte", (byte_count + st.byte_skip) % 256)
    IN  IF err # NoError THEN Fail(s, err)
        ELSE IF st.id = "MARK_ACCESS_FIELD_PATCHING"
        THEN patch(s1, st.references[1], "set_offset", 0)
        ELSE s1

\* a variant in which the change of the type adds a record of its own
mark_dummy_oop_relocation_two_records(s, pc_offset) ==
    relocate(relocate(s, pc_offset, "oop", "imm_operand"), pc_offset, "none", "imm_operand")

\* lines 830-836: the oop relocation is added and its type changed to none
mark_dummy_oop_relocation(s, pc_offset) ==
    relocate(s, pc_offset, "none", "imm_operand")

\* a variant in which the default case of the switch does nothing
mark_default_skips(s) == s

\* lines 837-839
mark_default(s) == Fail(s, ShouldNotReachHere)

\* a variant in which a Mark with no id clears the pending call type
mark_absent_resets(s) == [s EXCEPT !.next_call_type = "MARK_INVOKE_INVALID"]

\* line 740: the if has no else
mark_absent(s) == s

site_Mark(s, pc_offset, st) ==
    IF st.id = NoId THEN mark_absent(s)
    ELSE IF st.id \in DOMAIN EntryMarks
    THEN [s EXCEPT !.offsets = set_value_offsets(@, EntryMarks[st.id], pc_offset)]
    ELSE IF st.id = "MARK_STATIC_CALL_STUB" THEN mark_static_call_stub(s, pc_offset, st)
    ELSE IF st.id \in InvokeMarks THEN mark_invoke(s, pc_offset, st)
    ELSE IF st.id = "MARK_IMPLICIT_NULL"
    THEN [s EXCEPT !.implicit_table = Append(@, <<pc_offset, pc_offset>>)]
    ELSE IF st.id \in {"MARK_POLL_NEAR", "MARK_POLL_FAR", "MARK_POLL_RETURN_NEAR",
                       "MARK_POLL_RETURN_FAR"}
    THEN mark_poll(s, pc_offset, st)
    ELSE IF st.id \in {"MARK_KLASS_PATCHING", "MARK_ACCESS_FIELD_PATCHING"}
    THEN mark_patching(s, pc_offset, st)
    ELSE IF st.id = "MARK_DUMMY_OOP_RELOCATION" THEN mark_dummy_oop_relocation(s, pc_offset)
    ELSE mark_default(s)

(***************************************************************************)
(* initialize_assumptions (lines 266-289) with assumption_MethodContents,  *)
(* assumption_ConcreteSubtype and assumption_ConcreteMethod (399-426): the *)
(* dependencies asserted, in order, and the first fatal error.             *)
(***************************************************************************)
NoAssumptions == [isNull |-> TRUE]

\* a variant that asserts the abstract context of every concrete subtype
assumption_deps_always_abstract(a) ==
    IF a.klass = "MethodContents" THEN <<(<<"evol_method", a.method>>)>>
    ELSE IF a.klass = "ConcreteSubtype"
    THEN <<(<<"leaf_type", a.subtype>>),
           (<<"abstract_with_unique_concrete_subtype", a.context, a.subtype>>)>>
    ELSE IF a.klass = "ConcreteMethod"
    THEN <<(<<"unique_concrete_method", a.context, a.impl>>)>>
    ELSE <<>>

assumption_deps(a) ==
    IF a.klass = "MethodContents" THEN <<(<<"evol_method", a.method>>)>>
    ELSE IF a.klass = "ConcreteSubtype"
    THEN <<(<<"leaf_type", a.subtype>>)>>
         \o IF a.context # a.subtype
            THEN <<(<<"abstract_with_unique_concrete_subtype", a.context, a.subtype>>)>>
            ELSE <<>>
    ELSE IF a.klass = "ConcreteMethod"
    THEN <<(<<"unique_concrete_method", a.context, a.impl>>)>>
    ELSE <<>>

assumption_error(a) ==
    IF a.klass \in {"MethodContents", "ConcreteMethod"} THEN NoError
    ELSE IF a.klass = "ConcreteSubtype"
    THEN IF a.context # a.subtype THEN assert(a.context_is_abstract, "") ELSE NoError
    ELSE fatal("unexpected Assumption subclass")

RECURSIVE assumptions_loop(_, _, _)
assumptions_loop(list, i, deps) ==
    IF i > Len(list) THEN [deps |-> deps, error |-> NoError]
    ELSE IF list[i].klass = "null" THEN assumptions_loop(list, i + 1, deps)
    ELSE IF assumption_error(list[i]) # NoError
    THEN [deps |-> deps \o IF list[i].klass = "ConcreteSubtype"
                           THEN <<(<<"leaf_type", list[i].subtype>>)>> ELSE <<>>,
          error |-> assumption_error(list[i])]
    ELSE assumptions_loop(list, i + 1, deps \o assumption_deps(list[i]))

initialize_assumptions(assumptions) ==
    IF assumptions = NoAssumptions THEN [deps |-> <<>>, error |-> NoError]
    ELSE assumptions_loop(assumptions.list, 1, <<>>)

(***************************************************************************)
(* process_exception_handlers (lines 428-449): a subtable header and a     *)
(* subtable entry for each handler, in the order of the array.             *)
(***************************************************************************)
NoHandlers == [isNull |-> TRUE]
HandlerTableEntry(bci, pco, scope_depth) ==
    [bci |-> bci, pco |-> pco, scope_depth |-> scope_depth]

\* a variant that adds the entry of a handler before its header
handler_entries_entry_first(exc) ==
    <<HandlerTableEntry(-1, exc.handlerPos, 0), HandlerTableEntry(1, exc.pcOffset, 0)>>

\* lines 441-445: the subtable header and the subtable entry of one handler
handler_entries(exc) ==
    <<HandlerTableEntry(1, exc.pcOffset, 0), HandlerTableEntry(-1, exc.handlerPos, 0)>>

RECURSIVE handlers_loop(_, _, _)
handlers_loop(list, i, table) ==
    IF i > Len(list) THEN table
    ELSE handlers_loop(list, i + 1, table \o handler_entries(list[i]))

process_exception_handlers(exception_handlers, table) ==
    IF exception_handlers = NoHandlers THEN table
    ELSE handlers_loop(exception_handlers.list, 1, table)

(***************************************************************************)
(* The compilation results of the installer specification.                 *)
(***************************************************************************)
AssumptionInputs ==
    {NoAssumptions,
     [isNull |-> FALSE,
      list |-> <<[klass |-> "null"],
                 [klass |-> "ConcreteSubtype", context |-> "I", subtype |-> "K",
                  context_is_abstract |-> FALSE],
                 [klass |-> "MethodContents", method |-> "m"]>>],
     [isNull |-> FALSE,
      list |-> <<[klass |-> "ConcreteMethod", context |-> "K", impl |-> "m"],
                 [klass |-> "Unknown"]>>]}

HandlerInputs ==
    {NoHandlers,
     [isNull |-> FALSE, list |-> <<[pcOffset |-> 10, handlerPos |-> 20],
                                   [pcOffset |-> 15, handlerPos |-> 20]>>]}

\* the debug infos: one frame, or a frame and its caller; both mention the
\* virtual object of id 0, the second twice
DebugInfoOne ==
    DebugInfo(NullBitMap, GraalBitMap(<<{}>>),
              PlainFrame("A", 1, 0, 0, <<VirtualObject(1)>>, NoFrame), CyclicHeap)
DebugInfoTwo ==
    DebugInfo(GraalBitMap(<<{0}>>), GraalBitMap(<<{1}>>),
              PlainFrame("B", 1, 1, 0, <<VirtualObject(3), VirtualObject(2)>>,
                         PlainFrame("A", 1, 0, 0, <<VirtualObject(1)>>, NoFrame)),
              CyclicHeap)
\* a reference bit on rsp, which holds no oops
DebugInfoBad ==
    DebugInfo(GraalBitMap(<<{4}>>), GraalBitMap(<<{}>>),
              PlainFrame("A", 1, 0, 0, <<RegisterValue("T_INT", 0)>>, NoFrame), CyclicHeap)

Call(pcOffset, target, debugInfo) ==
    [kind |-> "Call", pcOffset |-> pcOffset, target |-> target, debugInfo |-> debugInfo]
Safepoint(pcOffset, debugInfo) ==
    [kind |-> "Safepoint", pcOffset |-> pcOffset, debugInfo |-> debugInfo]
DataPatch(pcOffset, constant, alignment, inlined) ==
    [kind |-> "DataPatch", pcOffset |-> pcOffset, constant |-> constant,
     alignment |-> alignment, inlined |-> inlined]
Mark(pcOffset, id, references, byte_skip, data) ==
    [kind |-> "Mark", pcOffset |-> pcOffset, id |-> id, references |-> references,
     byte_skip |-> byte_skip, data |-> data]

JavaMethod ==
    [klass |-> "HotSpotResolvedJavaMethod", method |-> "callee", is_static |-> TRUE]
VirtualMethod ==
    [klass |-> "HotSpotResolvedJavaMethod", method |-> "callee", is_static |-> FALSE]
InstalledCode == [klass |-> "HotSpotInstalledCode", nmethod |-> "nm"]
RuntimeStub == [klass |-> "Long", value |-> "stub"]

CallSites ==
    {Call(10, JavaMethod, DebugInfoOne), Call(10, VirtualMethod, DebugInfoOne),
     Call(10, RuntimeStub, NoDebugInfo),
     Call(15, InstalledCode, DebugInfoOne), Call(20, RuntimeStub, NoDebugInfo)}
SafepointSites == {Safepoint(15, DebugInfoOne), Safepoint(20, DebugInfoTwo),
                   Safepoint(20, DebugInfoBad)}
DataPatchSites ==
    {DataPatch(20, Constant("T_LONG", jlong(0, 5), NoObject), 2 * BytesPerLong, FALSE),
     DataPatch(20, Constant("T_DOUBLE", jlong(0, 7), NoObject), 0, FALSE),
     DataPatch(20, Constant("T_LONG", jlong(0, 5), NoObject), 4 * BytesPerLong, FALSE),
     DataPatch(20, Constant("T_DOUBLE", jlong(0, 5), NoObject), 0, TRUE),
     DataPatch(20, Constant("T_INT", jlong(0, 5), NoObject), 0, TRUE)}
MarkSites ==
    {Mark(10, "MARK_INVOKESTATIC", <<>>, 0, 0), Mark(0, "MARK_INVOKEVIRTUAL", <<>>, 0, 0),
     Mark(0, "MARK_INVOKEINTERFACE", <<>>, 0, 0), Mark(10, "MARK_INVOKESPECIAL", <<>>, 0, 0),
     Mark(10, "MARK_INLINE_INVOKEVIRTUAL", <<>>, 0, 0),
     Mark(0, "MARK_VERIFIED_ENTRY", <<>>, 0, 0), Mark(20, NoId, <<>>, 0, 0),
     Mark(20, "MARK_UNKNOWN", <<>>, 0, 0)}
OtherSites == {[kind |-> "Site", pcOffset |-> 0]}

(***************************************************************************)
(* Spec: the installation of a method (the constructor of lines 292-312).  *)
(* pc is the place of the constructor: "start", "fields", "buffer",        *)
(* "sites" (the loop of initialize_buffer), "register", "done", or         *)
(* "aborted" after a fatal error.                                          *)
(***************************************************************************)
\* out.ctor is the constructor that runs: the one that creates a method (line 292)
\* or the one that creates a stub (line 315).  out.dispatched is the history of
\* the loop of initialize_buffer: the index i and the site sites[i] of each
\* round, in the order of the rounds.  out.called: the blob of the stub exists.
Init ==
    /\ build \in Builds
    /\ pc = "start"
    /\ inp = [isNull |-> TRUE]
    /\ \E ctor \in {"method", "stub"} :
          out = [called |-> FALSE, dispatched |-> <<>>, ctor |-> ctor]
    /\ Fresh

\* the fields of the installer the site handlers work on
Cur ==
    [next_call_type |-> next_call_type, invoke_mark_pc |-> invoke_mark_pc,
     recorder |-> recorder, arena |-> arena, store |-> store,
     oop_recorder |-> oop_recorder, relocs |-> relocs, patches |-> patches,
     consts_end |-> consts_end, offsets |-> offsets, implicit_table |-> implicit_table,
     error |-> NoError]

\* report_vm_error, report_fatal and BREAKPOINT do not return
after_site(error) == IF error # NoError THEN "aborted" ELSE "sites"

\* the installer after the handler of site i: the loop goes on, or the error
\* ends the run
Apply(s) ==
    /\ next_call_type' = s.next_call_type
    /\ invoke_mark_pc' = s.invoke_mark_pc
    /\ recorder' = s.recorder
    /\ arena' = s.arena
    /\ store' = s.store
    /\ oop_recorder' = s.oop_recorder
    /\ relocs' = s.relocs
    /\ patches' = s.patches
    /\ consts_end' = s.consts_end
    /\ offsets' = s.offsets
    /\ implicit_table' = s.implicit_table
    /\ fatal_error' = s.error
    /\ pc' = after_site(s.error)
    /\ site_index' = IF s.error # NoError THEN site_index ELSE site_index + 1
    /\ out' = [out EXCEPT !.dispatched = Append(@, [i |-> site_index, site |-> site'])]
    /\ UNCHANGED <<build, inp, sites_length, handler_table, dependencies,
                   no_safepoint, registered>>

\* line 297
InitializeAssumptions ==
    /\ pc = "start"
    /\ out.ctor = "method"
    /\ \E assumptions \in AssumptionInputs :
          LET r == initialize_assumptions(assumptions)
          IN  /\ inp' = assumptions
              /\ dependencies' = r.deps
              /\ fatal_error' = r.error
              /\ pc' = IF r.error # NoError THEN "aborted" ELSE "fields"
    /\ UNCHANGED <<build, out, sites_length, site_index, site, next_call_type,
                   invoke_mark_pc, recorder, arena, store, oop_recorder, relocs, patches,
                   consts_end, offsets, implicit_table, handler_table, no_safepoint,
                   registered>>

\* a variant without the verifier
No_Safepoint_Verifier_absent == FALSE

\* lines 300 and 316: a No_Safepoint_Verifier is constructed
No_Safepoint_Verifier == TRUE

\* lines 316-319 of the constructor of a stub, whose name is not null: the
\* verifier, the oop recorder and initialize_fields
StubInitializeFields ==
    /\ pc = "start"
    /\ out.ctor = "stub"
    /\ pc' = "buffer"
    /\ no_safepoint' = No_Safepoint_Verifier
    /\ sites_length' \in 0..MaxSites
    /\ next_call_type' = MARK_INVOKE_INVALID
    /\ UNCHANGED <<build, inp, out, site_index, site, invoke_mark_pc, recorder, arena,
                   store, oop_recorder, relocs, patches, consts_end, offsets,
                   implicit_table, handler_table, dependencies, registered, fatal_error>>

\* lines 300-301: the No_Safepoint_Verifier and initialize_fields
InitializeFields ==
    /\ pc = "fields"
    /\ pc' = "buffer"
    /\ no_safepoint' = No_Safepoint_Verifier
    /\ sites_length' \in 0..MaxSites
    /\ next_call_type' = MARK_INVOKE_INVALID
    /\ UNCHANGED <<build, inp, out, site_index, site, invoke_mark_pc, recorder, arena,
                   store, oop_recorder, relocs, patches, consts_end, offsets,
                   implicit_table, handler_table, dependencies, registered, fatal_error>>

\* lines 358-376: the sections and the debug recorder, before the loop
InitializeBuffer ==
    /\ pc = "buffer"
    /\ pc' = "sites"
    /\ recorder' = <<>>
    /\ relocs' = <<>>
    /\ consts_end' = 0
    /\ site_index' = 0
    /\ UNCHANGED <<build, inp, out, sites_length, site, next_call_type, invoke_mark_pc,
                   arena, store, oop_recorder, patches, offsets, implicit_table,
                   handler_table, dependencies, no_safepoint, registered, fatal_error>>

\* a variant in which the loop over the sites is left before the last site
loop_done_early == TRUE

\* line 377: the loop over the sites ends when the index reaches their number
loop_done == site_index >= sites_length

InLoop == pc = "sites" /\ ~loop_done

\* lines 381-383
DispatchCall ==
    /\ InLoop
    /\ \E st \in CallSites : site' = st /\ Apply(site_Call(Cur, st.pcOffset, st))

\* lines 384-386
DispatchSafepoint ==
    /\ InLoop
    /\ \E st \in SafepointSites : site' = st /\ Apply(site_Safepoint(Cur, st.pcOffset, st))

\* lines 387-389
DispatchDataPatch ==
    /\ InLoop
    /\ \E st \in DataPatchSites : site' = st /\ Apply(site_DataPatch(Cur, st.pcOffset, st))

\* lines 390-392
DispatchMark ==
    /\ InLoop
    /\ \E st \in MarkSites : site' = st /\ Apply(site_Mark(Cur, st.pcOffset, st))

\* lines 393-395
DispatchUnexpected ==
    /\ InLoop
    /\ \E st \in OtherSites :
          site' = st /\ Apply(Fail(Cur, fatal("unexpected Site subclass")))

\* lines 303-304: after the loop, the handlers; the verifier goes out of scope
ProcessExceptionHandlers ==
    /\ pc = "sites"
    /\ loop_done
    /\ out.ctor = "method"
    /\ pc' = "register"
    /\ \E handlers \in HandlerInputs :
          handler_table' = process_exception_handlers(handlers, handler_table)
    /\ no_safepoint' = FALSE
    /\ UNCHANGED <<build, inp, out, sites_length, site_index, site, next_call_type,
                   invoke_mark_pc, recorder, arena, store, oop_recorder, relocs, patches,
                   consts_end, offsets, implicit_table, dependencies, registered,
                   fatal_error>>

\* lines 327-331 of the constructor of a stub: the blob is created and added to
\* the stubs, then the constructor returns and the verifier is destroyed
StubCreateBlob ==
    /\ pc = "sites"
    /\ loop_done
    /\ out.ctor = "stub"
    /\ pc' = "done"
    /\ out' = [out EXCEPT !.called = TRUE]
    /\ no_safepoint' = FALSE
    /\ UNCHANGED <<build, inp, sites_length, site_index, site, next_call_type,
                   invoke_mark_pc, recorder, arena, store, oop_recorder, relocs, patches,
                   consts_end, offsets, implicit_table, handler_table, dependencies,
                   registered, fatal_error>>

\* lines 306-311
RegisterMethod ==
    /\ pc = "register"
    /\ pc' = "done"
    /\ registered' = TRUE
    /\ UNCHANGED <<build, inp, out, sites_length, site_index, site, next_call_type,
                   invoke_mark_pc, recorder, arena, store, oop_recorder, relocs, patches,
                   consts_end, offsets, implicit_table, handler_table, dependencies,
                   no_safepoint, fatal_error>>

Next ==
    \/ InitializeAssumptions
    \/ InitializeFields
    \/ InitializeBuffer
    \/ DispatchCall
    \/ DispatchSafepoint
    \/ DispatchDataPatch
    \/ DispatchMark
    \/ DispatchUnexpected
    \/ ProcessExceptionHandlers
    \/ RegisterMethod
    \/ StubInitializeFields
    \/ StubCreateBlob

Spec == Init /\ [][Next]_vars

(***************************************************************************)
(* Properties of the installation (Spec).                                  *)
(***************************************************************************)
\* a step of the loop of initialize_buffer that dispatched a site and went on
Dispatched == pc = "sites" /\ site_index' = site_index + 1

IsInstalledCall(st) == st.kind = "Call" /\ st.target.klass = "HotSpotInstalledCode"

\* C1: after any Call site was processed, the pending call-type marker is
\* MARK_INVOKE_INVALID: it is never still pending when the next site is dispatched.
C1_MarkerInvalidAfterCall ==
    (site.kind = "Call" /\ fatal_error = NoError) => next_call_type = MARK_INVOKE_INVALID

\* the sites whose handling is a fatal contract violation in every build
FatalSite(st) ==
    \/ st.kind = "Site"
    \/ st.kind = "Mark" /\ st.id \notin KnownMarkIds \cup {NoId}
    \/ st.kind = "Call" /\ TargetCode[st.pcOffset].kind
                                \notin {"call", "jump", "mov_literal64", "call_reg"}
    \/ st.kind = "DataPatch" /\ typeChar(st.constant) \notin {"f", "j", "d", "a"}
    \/ st.kind = "Safepoint" /\ st.debugInfo = DebugInfoBad /\ build.ASSERT

\* C2: register_method is reached only after the assumptions were recorded, every
\* site was dispatched and the exception handlers were processed, none with a fatal
\* error; after a fatal error the installation is aborted and never registered.
C2_RegisteredOnlyAfterAllSteps ==
    /\ registered =>
          /\ fatal_error = NoError
          /\ pc = "done"
          /\ dependencies = initialize_assumptions(inp).deps
          /\ initialize_assumptions(inp).error = NoError
          /\ site_index = sites_length
          /\ ~FatalSite(site)
          /\ ~no_safepoint
          /\ handler_table \in {process_exception_handlers(h, <<>>) : h \in HandlerInputs}
    /\ fatal_error # NoError => pc = "aborted" /\ ~registered
    /\ pc = "aborted" => fatal_error # NoError

\* two sites, assumptions and handlers, installed and registered
C2_Witness ==
    /\ registered
    /\ sites_length >= 2
    /\ site_index = sites_length
    /\ dependencies # <<>>
    /\ handler_table # <<>>
    /\ recorder # <<>>

\* C3: a Call site whose target is installed code patches the jump at the site to
\* the verified entry point of the target and records nothing: no safepoint, no
\* oop map, no scope, no scope value.
C3_InstalledCallOnlyPatchesJump ==
    [][(Dispatched /\ IsInstalledCall(site')) =>
          /\ recorder' = recorder
          /\ arena' = arena
          /\ store' = store
          /\ patches' = Append(patches,
                               [at |-> site'.pcOffset, op |-> "set_jump_destination",
                                value |-> <<"verified_entry_point",
                                            site'.target.nmethod>>])]_vars

\* the call to installed code is the first site: nothing is recorded after it
C3_Witness ==
    /\ IsInstalledCall(site)
    /\ ~site.debugInfo.isNull
    /\ pc = "sites" /\ site_index = 1
    /\ recorder = <<>>
    /\ Len(patches) = 1 /\ patches[1].op = "set_jump_destination"

\* C7, as the specification states it: within one installation each virtual object
\* id is translated once, to one ObjectValue that all sites share.
C7_Original_OneInstancePerInstallation ==
    fatal_error = NoError =>
        \A h1 \in DOMAIN store : \A h2 \in DOMAIN store :
            store[h1].id = store[h2].id => h1 = h2

\* the ObjectValues the scopes of a pc descriptor name in their locals and expressions
ScopeValuesOf(d) ==
    UNION {{sc.locals[i] : i \in 1..Len(sc.locals)}
               \cup {sc.expressions[i] : i \in 1..Len(sc.expressions)} :
           sc \in {d.chain[k] : k \in 1..Len(d.chain)}}

ScopeObjects(d) == {v.h : v \in {w \in ScopeValuesOf(d) : w.sv = "Object"}}

PoolOf(d) == {d.pool[i] : i \in 1..Len(d.pool)}

\* C7, amended: the sharing is per site.  Within the scopes recorded for one
\* Call/Safepoint site each virtual object id has one ObjectValue, which all the
\* scopes of the site share; two sites share no ObjectValue, each translates the
\* ids it mentions again.
C7_OneInstancePerIdPerSite ==
    fatal_error = NoError =>
        /\ \A k \in 1..Len(recorder) :
              /\ \A i \in 1..Len(recorder[k].pool) : \A j \in 1..Len(recorder[k].pool) :
                    store[recorder[k].pool[i]].id = store[recorder[k].pool[j]].id => i = j
              /\ ScopeObjects(recorder[k]) \subseteq PoolOf(recorder[k])
        /\ \A k1 \in 1..Len(recorder) : \A k2 \in 1..Len(recorder) :
              k1 # k2 => PoolOf(recorder[k1]) \cap PoolOf(recorder[k2]) = {}

\* two sites whose scopes mention the virtual object of id 0: two ObjectValues
C7_Witness ==
    /\ fatal_error = NoError
    /\ Len(recorder) = 2
    /\ Len(recorder[2].chain) = 2
    /\ \E h1 \in PoolOf(recorder[1]) : \E h2 \in PoolOf(recorder[2]) :
          h1 # h2 /\ store[h1].id = 0 /\ store[h2].id = 0
    /\ \E h \in ScopeObjects(recorder[2]) :
          Cardinality({k \in 1..2 : \E i \in 1..Len(recorder[2].chain[k].locals) :
                           recorder[2].chain[k].locals[i] = ObjectValue(h)}) = 2

\* the last site was a DataPatch of a 64-bit constant, not inlined, with alignment
AlignedDataPatch ==
    /\ site.kind = "DataPatch"
    /\ ~site.inlined
    /\ site.constant.type \in {"T_LONG", "T_DOUBLE"}
    /\ site.alignment > 0

\* C12: a DataPatch site that is not inlined, of a 64-bit kind, with an alignment
\* a > 0 not above that of the constants section writes the constant at a section
\* offset that is a multiple of a, and the displacement patched into the
\* instruction plus the address of the next instruction is the address of the
\* constant; with a larger alignment the installation is aborted.
C12_AlignedRoundTrip ==
    AlignedDataPatch =>
        IF site.alignment <= constants_alignment
        THEN /\ fatal_error = NoError
             /\ Len(patches) >= 2
             /\ LET stored == patches[Len(patches) - 1]
                    operand == patches[Len(patches)]
                    next_instruction == instructions_start + site.pcOffset
                                            + TargetCode[site.pcOffset].size
                IN  /\ stored.op = "store_jlong"
                    /\ stored.value = site.constant.primitive
                    /\ stored.at[1] = "consts"
                    /\ stored.at[2] % site.alignment = 0
                    /\ consts_end = stored.at[2] + BytesPerLong
                    /\ operand.op = "disp32_operand"
                    /\ operand.at = site.pcOffset
                    /\ next_instruction + operand.value = constants_start + stored.at[2]
        ELSE fatal_error # NoError /\ pc = "aborted" /\ ~registered

\* a constant at offset 0, then one with alignment 16 that is moved up from 8 to 16
C12_Witness ==
    /\ AlignedDataPatch
    /\ fatal_error = NoError
    /\ site.alignment = 2 * BytesPerLong
    /\ Len(patches) = 4
    /\ patches[1].at = <<"consts", 0>>
    /\ patches[3].at = <<"consts", 2 * BytesPerLong>>
    /\ patches[4].value < 0

\* the statement as given: every Mark site without a known id, the one without an
\* id included, ends the installation
C13_Original_NoMarkSkipped ==
    (site.kind = "Mark" /\ site.id \notin KnownMarkIds) => fatal_error # NoError

\* the dispatch of a Mark site that has no id leaves the installer as it was
NullIdMarkSkipped ==
    (pc = "sites" /\ site_index' = site_index + 1 /\ site'.kind = "Mark" /\ site'.id = NoId)
        => /\ fatal_error' = NoError
           /\ UNCHANGED <<next_call_type, invoke_mark_pc, recorder, relocs, patches,
                          consts_end, offsets, implicit_table, oop_recorder>>

\* C13: a Mark site whose id is present and is not one of the known mark ids
\* aborts the installation, which is then never registered; a Mark site
\* without an id is the one Mark that is passed over, with no effect.
C13_UnknownIdAborts ==
    /\ []((site.kind = "Mark" /\ site.id \notin KnownMarkIds \cup {NoId})
              => (fatal_error = ShouldNotReachHere /\ pc = "aborted" /\ ~registered))
    /\ [][NullIdMarkSkipped]_vars

\* a Mark without an id was passed over, then a Mark with an unknown id aborted
C13_Witness ==
    /\ site.kind = "Mark"
    /\ site.id = "MARK_UNKNOWN"
    /\ site_index = 1
    /\ sites_length >= 2
    /\ fatal_error = ShouldNotReachHere
    /\ pc = "aborted"
    /\ patches = <<>> /\ relocs = <<>> /\ offsets = <<>> /\ recorder = <<>>
    /\ next_call_type = MARK_INVOKE_INVALID

\* a step that dispatched a Call site with a method target and went on
MethodCallPatched ==
    /\ pc = "sites"
    /\ site_index' = site_index + 1
    /\ site'.kind = "Call"
    /\ site'.target.klass = "HotSpotResolvedJavaMethod"
    /\ fatal_error' = NoError

\* the stub the call at the dispatched site was sent to, and its relocation
LastPatch == patches[Len(patches)]
LastReloc == relocs[Len(relocs)]
PatchedAtSite ==
    /\ Len(patches') = Len(patches) + 1
    /\ Len(relocs') = Len(relocs) + 1
    /\ LastPatch'.at = site'.pcOffset /\ LastPatch'.op = "set_destination"
    /\ LastReloc'.at = site'.pcOffset /\ LastReloc'.format = "call32_operand"

\* the statement as given: each of the four call types has a resolution stub and
\* a relocation kind that no other of the four has
C14_Original_FourDistinctBindings ==
    [][(MethodCallPatched /\ next_call_type \in ResolvedCallTypes)
          => /\ PatchedAtSite
             /\ \A other \in ResolvedCallTypes \ {next_call_type} :
                   /\ LastPatch'.value # <<resolve_stub(other)>>
                   /\ LastReloc'.type[1] # call_relocation(other, invoke_mark_pc)[1]]_vars

\* C14: a Call site with a method target is patched by the pending call type:
\* virtual and interface both to the virtual-call resolution stub with a virtual
\* call relocation that carries the pc of the invoke mark, static to the static
\* stub with a static call relocation, special to the opt-virtual stub with an
\* opt-virtual relocation; an inlined virtual call is left as it is.
C14_CallTypeSelectsBinding ==
    [][MethodCallPatched =>
          CASE next_call_type \in {"MARK_INVOKEVIRTUAL", "MARK_INVOKEINTERFACE"} ->
                   /\ PatchedAtSite
                   /\ LastPatch'.value = <<"resolve_virtual_call_stub">>
                   /\ LastReloc'.type = <<"virtual_call", invoke_mark_pc>>
            [] next_call_type = "MARK_INVOKESTATIC" ->
                   /\ PatchedAtSite
                   /\ LastPatch'.value = <<"resolve_static_call_stub">>
                   /\ LastReloc'.type = <<"static_call">>
            [] next_call_type = "MARK_INVOKESPECIAL" ->
                   /\ PatchedAtSite
                   /\ LastPatch'.value = <<"resolve_opt_virtual_call_stub">>
                   /\ LastReloc'.type = <<"opt_virtual_call">>
            [] next_call_type = "MARK_INLINE_INVOKEVIRTUAL" ->
                   patches' = patches /\ relocs' = relocs
            [] OTHER -> FALSE]_vars

\* an interface call was patched: the mark set the inline cache, the call went to
\* the stub of the virtual calls with the pc of the mark in its relocation
C14_Witness ==
    /\ fatal_error = NoError
    /\ site.kind = "Call"
    /\ site.target = VirtualMethod
    /\ site_index = 2
    /\ Len(patches) = 2
    /\ patches[1].op = "set_data"
    /\ patches[2].op = "set_destination"
    /\ patches[2].value = <<"resolve_virtual_call_stub">>
    /\ relocs[1].type = <<"virtual_call", 0>>
    /\ next_call_type = MARK_INVOKE_INVALID

\* the code offsets of the sites in the order of their dispatch
DispatchedOffsets == [k \in 1..Len(out.dispatched) |-> out.dispatched[k].site.pcOffset]

\* the statement as given: the offset of a dispatched site is never smaller than
\* the offset of the site dispatched before it
C15_Original_AscendingOffsets ==
    \A k \in 1..(Len(out.dispatched) - 1) : DispatchedOffsets[k] <= DispatchedOffsets[k + 1]

\* C15: initialize_buffer dispatches the sites in one pass in the order of their
\* index in the sites array, each index once: round k handles sites[k - 1], the
\* rounds stop at the first fatal error, and an installation that gets past the
\* loop has dispatched all sites_length sites.
C15_EachSiteOnceInIndexOrder ==
    /\ \A k \in 1..Len(out.dispatched) : out.dispatched[k].i = k - 1
    /\ Len(out.dispatched) <= sites_length
    /\ Len(out.dispatched) = IF fatal_error # NoError /\ pc = "aborted" /\ site # NoSite
                             THEN site_index + 1 ELSE site_index
    /\ Len(out.dispatched) > 0 => out.dispatched[Len(out.dispatched)].site = site
    /\ pc \in {"register", "done"} => Len(out.dispatched) = sites_length

\* three sites were dispatched in the order of the array, which is not the order
\* of their offsets, and the installation was registered
C15_Witness ==
    /\ registered
    /\ sites_length = 3
    /\ Len(out.dispatched) = 3
    /\ DispatchedOffsets = <<20, 10, 0>>

(***************************************************************************)
(* SpecAssumptions: initialize_assumptions on one list of assumptions.     *)
(* The list holds up to MaxAssumptions entries: a null entry, an           *)
(* assumption of each of the three kinds (a concrete subtype with the      *)
(* context equal to the subtype, with an abstract context and with a       *)
(* context that is not abstract), or an assumption of another class; or    *)
(* the compilation result has no assumptions.                              *)
(***************************************************************************)
MaxAssumptions == 2

AssumptionEntries ==
    {[klass |-> "null"],
     [klass |-> "MethodContents", method |-> "m"],
     [klass |-> "ConcreteSubtype", context |-> "K", subtype |-> "K",
      context_is_abstract |-> FALSE],
     [klass |-> "ConcreteSubtype", context |-> "I", subtype |-> "K",
      context_is_abstract |-> TRUE],
     [klass |-> "ConcreteSubtype", context |-> "C", subtype |-> "K",
      context_is_abstract |-> FALSE],
     [klass |-> "ConcreteMethod", context |-> "K", impl |-> "m"],
     [klass |-> "Unknown"]}

AssumptionLists ==
    {NoAssumptions}
    \cup {[isNull |-> FALSE, list |-> l] : l \in SeqsUpTo(AssumptionEntries, MaxAssumptions)}

InitAssumptions ==
    /\ build \in Builds
    /\ pc = "call"
    /\ inp \in AssumptionLists
    /\ out = [called |-> FALSE]
    /\ Fresh

CallInitializeAssumptions ==
    /\ pc = "call"
    /\ pc' = "done"
    /\ LET r == initialize_assumptions(inp)
       IN  out' = [called |-> TRUE, deps |-> r.deps, error |-> r.error]
    /\ UNCHANGED <<build, inp, installer_vars>>

NextAssumptions == CallInitializeAssumptions

SpecAssumptions == InitAssumptions /\ [][NextAssumptions]_vars

\* the entries of the list that are assumptions, in the order of the list
AssumptionsOf(a) ==
    IF a = NoAssumptions THEN <<>> ELSE SelectSeq(a.list, LAMBDA e : e.klass # "null")

\* the first assumption that ends the installation: one of an unknown class, or,
\* with assertions, a concrete subtype whose differing context is not abstract
Stops(e) ==
    \/ e.klass \notin {"MethodContents", "ConcreteSubtype", "ConcreteMethod"}
    \/ /\ build.ASSERT
       /\ e.klass = "ConcreteSubtype"
       /\ e.context # e.subtype
       /\ ~e.context_is_abstract

\* the dependencies of an assumption that does not stop the installation
DependenciesOf(e) ==
    CASE e.klass = "MethodContents" -> <<(<<"evol_method", e.method>>)>>
      [] e.klass = "ConcreteSubtype" /\ e.context = e.subtype ->
             <<(<<"leaf_type", e.subtype>>)>>
      [] e.klass = "ConcreteSubtype" /\ e.context # e.subtype ->
             <<(<<"leaf_type", e.subtype>>),
               (<<"abstract_with_unique_concrete_subtype", e.context, e.subtype>>)>>
      [] e.klass = "ConcreteMethod" -> <<(<<"unique_concrete_method", e.context, e.impl>>)>>

RECURSIVE Concat(_)
Concat(seqs) == IF seqs = <<>> THEN <<>> ELSE Head(seqs) \o Concat(Tail(seqs))

\* C16: initialize_assumptions handles the assumptions in the order of the list and
\* records for each kind: MethodContents, an evolution dependency on the method;
\* ConcreteSubtype, a leaf-type dependency on the subtype and, only when the
\* context differs from the subtype, an abstract-with-unique-concrete-subtype
\* dependency on (context, subtype); ConcreteMethod, a unique-concrete-method
\* dependency on (context, impl).  An assumption of another kind is a fatal error
\* in every build, and nothing after it is recorded.
C16_DependenciesPerKind ==
    (pc = "done" /\ out.called) =>
        LET as == AssumptionsOf(inp)
            stops == {i \in 1..Len(as) : Stops(as[i])}
        IN  IF stops = {}
            THEN /\ out.error = NoError
                 /\ out.deps = Concat([i \in 1..Len(as) |-> DependenciesOf(as[i])])
            ELSE LET first == CHOOSE i \in stops : \A j \in stops : i <= j
                     before == Concat([i \in 1..(first - 1) |-> DependenciesOf(as[i])])
                 IN  /\ out.error # NoError
                     /\ as[first].klass = "Unknown"
                            => /\ out.error = fatal("unexpected Assumption subclass")
                               /\ out.deps = before
                     /\ as[first].klass = "ConcreteSubtype"
                            => out.deps = before \o <<(<<"leaf_type", as[first].subtype>>)>>

\* a concrete subtype that is its own context, then one under an abstract context
C16_Witness ==
    /\ pc = "done" /\ out.called
    /\ out.error = NoError
    /\ ~inp.isNull
    /\ Len(inp.list) = 2
    /\ inp.list[1].klass = "ConcreteSubtype" /\ inp.list[1].context = "K"
    /\ inp.list[2].klass = "ConcreteSubtype" /\ inp.list[2].context = "I"
    /\ out.deps = <<(<<"leaf_type", "K">>), (<<"leaf_type", "K">>),
                    (<<"abstract_with_unique_concrete_subtype", "I", "K">>)>>

(***************************************************************************)
(* SpecHandlers: process_exception_handlers on one array of exception      *)
(* handlers, of up to MaxHandlers descriptors, or on no array.             *)
(***************************************************************************)
MaxHandlers == 3

HandlerEntries == [pcOffset : {10, 15}, handlerPos : {20, 28}]

HandlerLists ==
    {NoHandlers}
    \cup {[isNull |-> FALSE, list |-> l] : l \in SeqsUpTo(HandlerEntries, MaxHandlers)}

InitHandlers ==
    /\ build \in Builds
    /\ pc = "call"
    /\ inp \in HandlerLists
    /\ out = [called |-> FALSE]
    /\ Fresh

CallProcessExceptionHandlers ==
    /\ pc = "call"
    /\ pc' = "done"
    /\ handler_table' = process_exception_handlers(inp, handler_table)
    /\ out' = [called |-> TRUE]
    /\ UNCHANGED <<build, inp, sites_length, site_index, site, next_call_type,
                   invoke_mark_pc, recorder, arena, store, oop_recorder, relocs, patches,
                   consts_end, offsets, implicit_table, dependencies, no_safepoint,
                   registered, fatal_error>>

NextHandlers == CallProcessExceptionHandlers

SpecHandlers == InitHandlers /\ [][NextHandlers]_vars

\* C17: process_exception_handlers adds, for each handler in the order of the
\* array, exactly two entries: a subtable header with the pc offset of the handler
\* and right after it an entry with its handler offset; the table has 2 * n
\* entries for n handlers and is empty when there is no array.
C17_TwoEntriesPerHandler ==
    (pc = "done" /\ out.called) =>
        IF inp = NoHandlers THEN handler_table = <<>>
        ELSE /\ Len(handler_table) = 2 * Len(inp.list)
             /\ \A k \in 1..Len(inp.list) :
                   /\ handler_table[2 * k - 1]
                          = [bci |-> 1, pco |-> inp.list[k].pcOffset, scope_depth |-> 0]
                   /\ handler_table[2 * k]
                          = [bci |-> -1, pco |-> inp.list[k].handlerPos, scope_depth |-> 0]

\* three handlers, two of them for the same pc offset
C17_Witness ==
    /\ pc = "done" /\ out.called
    /\ ~inp.isNull
    /\ Len(inp.list) = 3
    /\ inp.list[1].pcOffset = inp.list[2].pcOffset
    /\ inp.list[1].handlerPos # inp.list[2].handlerPos
    /\ inp.list[3].pcOffset # inp.list[1].pcOffset
    /\ Len(handler_table) = 6
    /\ handler_table[5].pco = inp.list[3].pcOffset

\* a step that dispatches a site, translates values, records a safepoint or a
\* scope, patches the code, or processes the exception handlers
InstallationWork ==
    \/ out'.dispatched # out.dispatched
    \/ recorder' # recorder
    \/ store' # store
    \/ patches' # patches
    \/ relocs' # relocs
    \/ handler_table' # handler_table
    \/ pc = "sites" /\ pc' = "register"

\* C18: every dispatch of a site, with its value translation and scope recording,
\* and the processing of the exception handlers run while the
\* No_Safepoint_Verifier is alive, in the constructor of a method and in that of
\* a stub; the verifier is gone when register_method is called.
C18_WorkUnderNoSafepointGuard ==
    /\ [](pc \in {"buffer", "sites"} => no_safepoint)
    /\ [][InstallationWork => no_safepoint]_vars
    /\ [][(pc = "sites" /\ pc' = "sites") => no_safepoint']_vars
    /\ [](pc = "register" => ~no_safepoint)
    /\ [][(registered' /\ ~registered) => (~no_safepoint /\ ~no_safepoint')]_vars

\* a method with a recorded scope and exception handlers was registered after two
\* sites, the verifier gone
C18_Witness ==
    /\ out.ctor = "method"
    /\ registered
    /\ ~no_safepoint
    /\ Len(out.dispatched) = 2
    /\ Len(recorder) = 1
    /\ store # <<>>
    /\ Len(handler_table) = 4

\* a Call site with a method target is dispatched
MethodCallDispatched ==
    /\ pc = "sites"
    /\ Len(out'.dispatched) = Len(out.dispatched) + 1
    /\ site'.kind = "Call"
    /\ site'.target.klass = "HotSpotResolvedJavaMethod"

IsMethodCall(st) == st.kind = "Call" /\ st.target.klass = "HotSpotResolvedJavaMethod"
IsInvokeMark(st) == st.kind = "Mark" /\ st.id \in InvokeMarks \ {MARK_INVOKE_INVALID}

\* the handler of the k-th dispatched site returned
Returned(k) == k < Len(out.dispatched) \/ fatal_error = NoError

\* C20: a Call site with a method target that is dispatched while the pending
\* call type is MARK_INVOKE_INVALID ends the installation with the fatal error
\* and patches nothing; and every method Call whose handler returned has an
\* invoke Mark of its own before it, with no other method Call in between, so
\* that no two method Calls are served by one invoke Mark.
C20_InvalidMarkerAborts ==
    /\ [][(MethodCallDispatched /\ next_call_type = MARK_INVOKE_INVALID)
             => /\ fatal_error' = fatal("invalid _next_call_type value")
                /\ pc' = "aborted"
                /\ patches' = patches /\ relocs' = relocs]_vars
    /\ [](\A j \in 1..Len(out.dispatched) :
             (IsMethodCall(out.dispatched[j].site) /\ Returned(j))
                => \E k \in 1..(j - 1) :
                      /\ IsInvokeMark(out.dispatched[k].site)
                      /\ \A m \in (k + 1)..(j - 1) :
                            ~IsMethodCall(out.dispatched[m].site))

\* an invoke Mark, the method Call it serves, and a second method Call that
\* finds no pending call type: one call patched, then the fatal error
C20_Witness ==
    /\ pc = "aborted"
    /\ Len(out.dispatched) = 3
    /\ IsInvokeMark(out.dispatched[1].site)
    /\ IsMethodCall(out.dispatched[2].site)
    /\ IsMethodCall(out.dispatched[3].site)
    /\ fatal_error = fatal("invalid _next_call_type value")
    /\ Len(patches) = 1
    /\ patches[1].op = "set_destination"

\* the suspension points that are open
OpenSafepoints == {k \in 1..Len(recorder) : recorder[k].open}

\* a site with debug info whose handler registers a suspension point returned
SafepointRegistered ==
    /\ pc = "sites"
    /\ Len(out'.dispatched) = Len(out.dispatched) + 1
    /\ fatal_error' = NoError
    /\ \/ site'.kind = "Safepoint"
       \/ /\ site'.kind = "Call"
          /\ site'.target.klass # "HotSpotInstalledCode"
          /\ ~site'.debugInfo.isNull

\* C21: between two sites no suspension point is open, and each was closed at the
\* offset it was opened at; a site that registers a suspension point adds exactly
\* one, which holds the whole scope chain of the site's frame; a Safepoint site
\* registers it at its own offset, a Call site with debug info at the offset of
\* the instruction that follows the call.
C21_SafepointClosedAtItsOffset ==
    /\ []((pc \in {"sites", "done"} /\ fatal_error = NoError)
             => /\ OpenSafepoints = {}
                /\ \A k \in 1..Len(recorder) :
                      recorder[k].closed_at = <<recorder[k].pc_offset>>)
    /\ [](Cardinality(OpenSafepoints) <= 1)
    /\ [][SafepointRegistered
             => /\ Len(recorder') = Len(recorder) + 1
                /\ SubSeq(recorder', 1, Len(recorder)) = recorder
                /\ Len(recorder'[Len(recorder')].chain)
                      = Depth(site'.debugInfo.bytecodePosition)
                /\ recorder'[Len(recorder')].pc_offset
                      = IF site'.kind = "Safepoint" THEN site'.pcOffset
                        ELSE site'.pcOffset + TargetCode[site'.pcOffset].size]_vars

\* a Call at 10 with debug info and a Safepoint site at 20 have both returned:
\* the suspension points are at 15 and at 20, both closed
C21_Witness ==
    /\ pc = "sites"
    /\ fatal_error = NoError
    /\ Len(recorder) = 2
    /\ recorder[1].pc_offset = 15 /\ recorder[1].closed_at = <<15>>
    /\ recorder[2].pc_offset = 20 /\ recorder[2].closed_at = <<20>>
    /\ Len(recorder[2].chain) = 2
    /\ OpenSafepoints = {}

(***************************************************************************)
(* SpecMonitor: get_monitor_value (lines 246-264) on one lock entry, as    *)
(* record_scope calls it (line 508) with the seen-objects list of the      *)
(* site.                                                                   *)
(***************************************************************************)
MonitorOwners ==
    {StackSlot("T_OBJECT", 0, FALSE), RegisterValue("T_OBJECT", 1),
     StackSlot("T_LONG", 0, FALSE), Constant("T_OBJECT", jlong(0, 0), NoObject)}
MonitorLockData ==
    {StackSlot("T_LONG", 16, FALSE), StackSlot("T_LONG", 16, TRUE),
     StackSlot("T_DOUBLE", 16, FALSE), StackSlot("T_INT", 16, FALSE),
     RegisterValue("T_LONG", 0), Constant("T_LONG", jlong(0, 5), NoObject),
     Constant("T_INT", jlong(0, 5), NoObject), ILLEGAL}
MonitorInputs ==
    {code_MonitorValue(o, l, e) : o \in MonitorOwners, l \in MonitorLockData, e \in BOOLEAN}

InitMonitor ==
    /\ build \in Builds
    /\ pc = "call"
    /\ inp \in MonitorInputs
    /\ out = [called |-> FALSE]
    /\ Fresh

CallGetMonitorValue ==
    /\ pc = "call"
    /\ pc' = "done"
    /\ out' = [called |-> TRUE,
               r |-> get_monitor_value(inp, total_frame_size_of(frameSize), CyclicHeap,
                                       Context(0, <<>>, <<>>, {}))]
    /\ UNCHANGED <<build, inp, installer_vars>>

NextMonitor == CallGetMonitorValue

SpecMonitor == InitMonitor /\ [][NextMonitor]_vars

\* the translations of the owner and of the lock data of the entry
OwnerTranslated ==
    get_hotspot_value(inp.owner, total_frame_size_of(frameSize), CyclicHeap,
                      Context(0, <<>>, <<>>, {}))
LockDataTranslated ==
    get_hotspot_value(inp.lockData, total_frame_size_of(frameSize), CyclicHeap,
                      OwnerTranslated.cx)
MonitorAccepted == pc = "done" /\ out.r.cx.error = NoError

\* C22: a lock entry is accepted only if its owner translates to a value with no
\* second slot and its lock data to a location that is its own second slot; the
\* monitor value of an accepted entry holds the translated owner, the location of
\* the lock data and the eliminated flag of the entry.
C22_MonitorContractEnforced ==
    MonitorAccepted =>
        /\ OwnerTranslated.second = NULL
        /\ LockDataTranslated.value.sv = "Location"
        /\ LockDataTranslated.second = LockDataTranslated.value
        /\ out.r.value.owner = OwnerTranslated.value
        /\ out.r.value.basic_lock.at = LockDataTranslated.value.at
        /\ out.r.value.eliminated = inp.eliminated

(***************************************************************************)
(* SpecFields: get_hotspot_value on one VirtualObject whose fields are     *)
(* enumerated (lines 199-237), for both byte orders.                       *)
(***************************************************************************)
FieldInputs ==
    {StackSlot("T_INT", 8, FALSE), StackSlot("T_LONG", 8, FALSE),
     Constant("T_INT", jlong(0, 5), NoObject), Constant("T_LONG", jlong(0, 5), NoObject),
     RegisterValue("T_DOUBLE", 16), ILLEGAL, VirtualObject(2)}

FieldsHeap(isLongArray, values) ==
    <<[id |-> 0, isLongArray |-> isLongArray, values |-> values],
      [id |-> 1, isLongArray |-> FALSE, values |-> <<>>]>>

InitFields ==
    /\ build \in AnyEndianBuilds
    /\ pc = "call"
    /\ inp \in [isLongArray : BOOLEAN, values : SeqsUpTo(FieldInputs, MaxValues)]
    /\ out = [called |-> FALSE]
    /\ Fresh

CallTranslateFields ==
    /\ pc = "call"
    /\ pc' = "done"
    /\ out' = [called |-> TRUE,
               r |-> get_hotspot_value(VirtualObject(1), total_frame_size_of(frameSize),
                                       FieldsHeap(inp.isLongArray, inp.values),
                                       Context(0, <<>>, <<>>, {}))]
    /\ UNCHANGED <<build, inp, installer_vars>>

NextFields == CallTranslateFields

SpecFields == InitFields /\ [][NextFields]_vars

FieldsTranslated == pc = "done" /\ out.r.cx.error = NoError
\* sv->field_values() of the translated object
FieldValuesOf == out.r.cx.store[out.r.value.h].field_values

\* the scope value sv is the translation of the field value v
IsValueOf(sv, v) ==
    CASE v.tag = "VirtualObject" -> sv.sv = "Object"
      [] v.tag \in {"StackSlot", "Register"} -> sv.sv = "Location" /\ sv.type # "invalid"
      [] v.tag = "Illegal" -> sv.sv = "Location" /\ sv.type = "invalid"
      [] v.tag = "Constant" /\ v.type \in {"T_LONG", "T_DOUBLE"} ->
             sv.sv = "ConstantLong" /\ sv.value = v.primitive
      [] OTHER -> sv.sv = "ConstantInt" /\ sv.value = v.primitive.lo

IsFiller(sv) == sv.sv = "ConstantInt" /\ sv.value = 0

\* the second slot a wide value v brings with it
IsSecondOf(sv, value, v) == IF v.tag = "Constant" THEN IsFiller(sv) ELSE sv = value

\* C23: in a long array every field entry adds two consecutive scope values: a
\* wide value its second slot and itself, a value without a second slot itself
\* and an int 0 filler, the filler first on little-endian builds and last on
\* big-endian builds; in any other type a value without a second slot adds one
\* scope value.
C23_LongArrayFieldsInPairs ==
    FieldsTranslated =>
        IF inp.isLongArray
        THEN /\ Len(FieldValuesOf) = 2 * Len(inp.values)
             /\ \A i \in 1..Len(inp.values) :
                   LET a == FieldValuesOf[2 * i - 1]
                       b == FieldValuesOf[2 * i]
                       v == inp.values[i]
                   IN  IF TwoSlot(v) THEN IsValueOf(b, v) /\ IsSecondOf(a, b, v)
                       ELSE IF build.VM_LITTLE_ENDIAN
                       THEN IsFiller(a) /\ IsValueOf(b, v) /\ a.h # b.h
                       ELSE IsValueOf(a, v) /\ IsFiller(b) /\ a.h # b.h
        ELSE (\A i \in 1..Len(inp.values) : ~TwoSlot(inp.values[i]))
                => /\ Len(FieldValuesOf) = Len(inp.values)
                   /\ \A i \in 1..Len(inp.values) : IsValueOf(FieldValuesOf[i], inp.values[i])

\* a long array of an int slot and a long slot on a big-endian build: the int
\* slot first and its filler after it, then the two slots of the long
C23_Witness ==
    /\ FieldsTranslated
    /\ inp.isLongArray
    /\ ~build.VM_LITTLE_ENDIAN
    /\ inp.values = <<StackSlot("T_INT", 8, FALSE), StackSlot("T_LONG", 8, FALSE)>>
    /\ Len(FieldValuesOf) = 4
    /\ FieldValuesOf[1].sv = "Location"
    /\ IsFiller(FieldValuesOf[2])
    /\ FieldValuesOf[3] = FieldValuesOf[4]

\* the number of wide values among the first i field values
WideUpTo(values, i) == Cardinality({k \in 1..i : TwoSlot(values[k])})

\* C28: every entry of the values array of a virtual object is translated, in
\* order, also the entry that follows a wide value; for a type other than long
\* array the field list holds one scope value per entry and one more per wide
\* entry, the value of entry i at position i plus the number of wide entries up
\* to i, with its second slot before it.
C28_NoFieldSkipped ==
    (FieldsTranslated /\ ~inp.isLongArray) =>
        /\ Len(FieldValuesOf) = Len(inp.values) + WideUpTo(inp.values, Len(inp.values))
        /\ \A i \in 1..Len(inp.values) :
              LET at == i + WideUpTo(inp.values, i)
              IN  /\ IsValueOf(FieldValuesOf[at], inp.values[i])
                  /\ TwoSlot(inp.values[i])
                        => IsSecondOf(FieldValuesOf[at - 1], FieldValuesOf[at],
                                      inp.values[i])

\* a long slot, then an int slot, then a long constant: the int slot after the
\* wide value is translated as well
C28_Witness ==
    /\ FieldsTranslated
    /\ ~inp.isLongArray
    /\ inp.values = <<StackSlot("T_LONG", 8, FALSE), StackSlot("T_INT", 8, FALSE),
                      Constant("T_LONG", jlong(0, 5), NoObject)>>
    /\ Len(FieldValuesOf) = 5
    /\ FieldValuesOf[3].sv = "Location" /\ FieldValuesOf[3] # FieldValuesOf[2]
    /\ FieldValuesOf[5].sv = "ConstantLong"

(***************************************************************************)
(* SpecConstants: the constants section under DataPatch sites (lines       *)
(* 349-351, 361 and 674-734), for the alignments the section can have.     *)
(***************************************************************************)
\* line 350: _constants_size
constants_size_of(length) == length * (BytesPerLong * 2)

ConstantPatchSites ==
    {DataPatch(20, Constant("T_LONG", jlong(0, 5), NoObject), a, FALSE) :
        a \in {0, BytesPerLong, 2 * BytesPerLong, 4 * BytesPerLong}}
    \cup {DataPatch(20, Constant("T_DOUBLE", jlong(0, 5), NoObject), 0, TRUE),
          DataPatch(20, Constant("T_INT", jlong(0, 5), NoObject), 0, FALSE)}

InitConstants ==
    /\ build \in AnyAlignmentBuilds
    /\ pc = "start"
    /\ inp = [isNull |-> TRUE]
    /\ out = [called |-> FALSE, dispatched |-> <<>>, ctor |-> "stub"]
    /\ Fresh

\* lines 387-389
DispatchConstantPatch ==
    /\ InLoop
    /\ \E st \in ConstantPatchSites :
          site' = st /\ Apply(site_DataPatch(Cur, st.pcOffset, st))

NextConstants ==
    \/ StubInitializeFields
    \/ InitializeBuffer
    \/ DispatchConstantPatch

SpecConstants == InitConstants /\ [][NextConstants]_vars

\* C24: the end of the constants section, with the padding of the aligned
\* constants, is at most the reserved size of 16 bytes per site of the
\* compilation result.
C24_ConstantsWithinReservedSize ==
    pc \in {"sites", "aborted"} => consts_end <= constants_size_of(sites_length)

(***************************************************************************)
(* SpecSites: the loop of initialize_buffer (lines 377-396) over sites of  *)
(* every kind and Marks of every id.                                       *)
(***************************************************************************)
MarkReferences(id) ==
    IF id = "MARK_STATIC_CALL_STUB" THEN <<10>>
    ELSE IF id \in {"MARK_KLASS_PATCHING", "MARK_ACCESS_FIELD_PATCHING"} THEN <<0, 10>>
    ELSE <<>>
MarkData(id) == IF id = "MARK_ACCESS_FIELD_PATCHING" THEN "max_jint" ELSE 0

AnyMarkSites ==
    {Mark(20, id, MarkReferences(id), 5, MarkData(id)) :
        id \in KnownMarkIds \cup {NoId, "MARK_UNKNOWN"}}
AnySites ==
    AnyMarkSites
    \cup {Call(10, JavaMethod, DebugInfoOne), Call(10, RuntimeStub, NoDebugInfo),
          Call(15, InstalledCode, DebugInfoOne), Safepoint(20, DebugInfoOne),
          DataPatch(20, Constant("T_LONG", jlong(0, 5), NoObject), 0, FALSE),
          DataPatch(20, Constant("T_DOUBLE", jlong(0, 5), NoObject), 0, TRUE),
          DataPatch(20, Constant("T_OBJECT", jlong(0, 0), <<"other">>), 0, TRUE)}

\* lines 381-392: the handler of the site's class
site_handler(s, st) ==
    CASE st.kind = "Call" -> site_Call(s, st.pcOffset, st)
      [] st.kind = "Safepoint" -> site_Safepoint(s, st.pcOffset, st)
      [] st.kind = "DataPatch" -> site_DataPatch(s, st.pcOffset, st)
      [] st.kind = "Mark" -> site_Mark(s, st.pcOffset, st)

InitSites ==
    /\ build \in Builds
    /\ pc = "start"
    /\ inp = [isNull |-> TRUE]
    /\ out = [called |-> FALSE, dispatched |-> <<>>, ctor |-> "stub"]
    /\ Fresh

DispatchAnySite ==
    /\ InLoop
    /\ \E st \in AnySites : site' = st /\ Apply(site_handler(Cur, st))

NextSites ==
    \/ StubInitializeFields
    \/ InitializeBuffer
    \/ DispatchAnySite

SpecSites == InitSites /\ [][NextSites]_vars

\* the handler of a site ran, to its end or to a fatal error
SiteHandled == pc = "sites" /\ Len(out'.dispatched) = Len(out.dispatched) + 1

IsStaticCallStubMark(st) == st.kind = "Mark" /\ st.id = "MARK_STATIC_CALL_STUB"
StaticCallStubMarks ==
    {k \in 1..Len(out.dispatched) : IsStaticCallStubMark(out.dispatched[k].site)}

MaySetCallType(st) == st.kind = "Call" \/ (st.kind = "Mark" /\ st.id \in InvokeMarks)

\* C26: the handler of a Safepoint site, of a DataPatch site and of a Mark whose
\* id is no invoke id (or is absent) leaves the pending call type as it was,
\* whether it returns or ends in an error; an invoke Mark that returns sets it to
\* its id.
C26_OnlyCallsAndInvokeMarksSetCallType ==
    [][SiteHandled =>
          /\ ~MaySetCallType(site') => next_call_type' = next_call_type
          /\ (site'.kind = "Mark" /\ site'.id \in InvokeMarks /\ fatal_error' = NoError)
                => next_call_type' = site'.id]_vars

\* an invoke Mark, a Safepoint site, then the method Call, which is patched with
\* the stub of the Mark
C26_Witness ==
    /\ pc = "sites"
    /\ fatal_error = NoError
    /\ Len(out.dispatched) = 3
    /\ out.dispatched[1].site.kind = "Mark"
    /\ out.dispatched[1].site.id = "MARK_INVOKESTATIC"
    /\ out.dispatched[2].site.kind = "Safepoint"
    /\ IsMethodCall(out.dispatched[3].site)
    /\ Len(patches) = 1
    /\ patches[1].value = <<"resolve_static_call_stub">>

(***************************************************************************)
(* SpecPatching: site_Mark on a MARK_KLASS_PATCHING or                     *)
(* MARK_ACCESS_FIELD_PATCHING Mark (lines 806-829) whose two references    *)
(* are at the code offsets p1 and p2.                                      *)
(***************************************************************************)
PatchingDifferences == (0 - 2)..260

PatchingMarks ==
    {Mark(300, id, <<p1, p1 + d>>, 5, "max_jint") :
        id \in {"MARK_KLASS_PATCHING", "MARK_ACCESS_FIELD_PATCHING"},
        p1 \in {4, 20}, d \in PatchingDifferences}

InitPatching ==
    /\ build \in Builds
    /\ pc = "call"
    /\ inp \in PatchingMarks
    /\ out = [called |-> FALSE]
    /\ Fresh

CallSiteMarkPatching ==
    /\ pc = "call"
    /\ pc' = "done"
    /\ out' = [called |-> TRUE, s |-> site_Mark(Cur, inp.pcOffset, inp)]
    /\ UNCHANGED <<build, inp, installer_vars>>

NextPatching == CallSiteMarkPatching

SpecPatching == InitPatching /\ [][NextPatching]_vars

\* the byte the Mark wrote at the code offset at, if it wrote one
BytesWrittenAt(at) ==
    {out.s.patches[k].value :
        k \in {j \in 1..Len(out.s.patches) :
                  out.s.patches[j].at = at /\ out.s.patches[j].op = "byte"}}

PatchingDifference == inp.references[2] - inp.references[1]

\* C27: for a difference p2 - p1 of 0 to 255 the byte count written before the
\* Mark is p2 - p1 and the being-initialized entry offset written is
\* (p2 - p1) + byte_skip, not reduced to 8 bits.
C27_PatchingBytesExact ==
    (pc = "done" /\ out.s.error = NoError /\ PatchingDifference \in 0..255) =>
        /\ BytesWrittenAt(inp.pcOffset - 1) = {PatchingDifference}
        /\ BytesWrittenAt(inp.pcOffset - 3) = {PatchingDifference + inp.byte_skip}

\* C29: within one installation the suspension points are registered at strictly
\* increasing code offsets, so that no two of them have the same offset.
C29_SafepointOffsetsIncrease ==
    fatal_error = NoError =>
        \A j, k \in 1..Len(recorder) :
            j < k => recorder[j].pc_offset < recorder[k].pc_offset

\* C30: the handler of a Mark whose id is absent returns with the code offsets,
\* the relocation records, the patched code, the constants section, the
\* implicit-exception table, the debug information and the pending call type
\* with its pc as they were, and the loop goes on with the next site.
C30_AbsentIdMarkChangesNothing ==
    [][(SiteHandled /\ site'.kind = "Mark" /\ site'.id = NoId)
          => /\ offsets' = offsets
             /\ relocs' = relocs
             /\ patches' = patches
             /\ consts_end' = consts_end
             /\ implicit_table' = implicit_table
             /\ recorder' = recorder
             /\ next_call_type' = next_call_type
             /\ invoke_mark_pc' = invoke_mark_pc
             /\ fatal_error' = NoError
             /\ pc' = "sites"
             /\ site_index' = site_index + 1]_vars

\* an invoke Mark, a Mark with no id, then the method Call, which finds the call
\* type of the first Mark and is patched
C30_Witness ==
    /\ pc = "sites"
    /\ fatal_error = NoError
    /\ site_index = 3
    /\ Len(out.dispatched) = 3
    /\ out.dispatched[1].site.kind = "Mark"
    /\ out.dispatched[1].site.id = "MARK_INVOKESPECIAL"
    /\ out.dispatched[2].site.kind = "Mark"
    /\ out.dispatched[2].site.id = NoId
    /\ IsMethodCall(out.dispatched[3].site)
    /\ Len(patches) = 1
    /\ patches[1].value = <<"resolve_opt_virtual_call_stub">>

(***************************************************************************)
(* SpecTranslate: get_hotspot_value on a VirtualObject (lines 199-237),    *)
(* step by step.  The C++ call stack is out.stack: a frame [svh, ref, i]   *)
(* is a call that is in the loop of lines 217-236 for the ObjectValue svh  *)
(* of the virtual object heap[ref], about to translate the field value at  *)
(* index i.  out.objects is the seen-objects list, out.expanded counts for *)
(* each id how often the loop over its fields was entered.                 *)
(***************************************************************************)
MaxObjects == 2
MaxStack == 6

\* the field lists of a virtual object: no field, one reference, or two
FieldRefs(n) ==
    {<<>>} \cup {<<VirtualObject(a)>> : a \in 1..n}
           \cup {<<VirtualObject(a), VirtualObject(b)>> : a \in 1..n, b \in 1..n}

\* every graph of n virtual objects, the object at ref k having the id k - 1
GraphHeaps(n) ==
    {[k \in 1..n |-> [id |-> k - 1, isLongArray |-> FALSE, values |-> f[k]]] :
        f \in [1..n -> FieldRefs(n)]}

TranslateInputs ==
    {[heap |-> h, root |-> 1] : h \in GraphHeaps(MaxObjects)}
    \cup {[heap |-> h, root |-> r] : h \in Heaps, r \in HeapRefs}

IdsOf(heap) == {heap[k].id : k \in 1..Len(heap)}

InitTranslate ==
    /\ build \in Builds
    /\ pc = "call"
    /\ inp \in TranslateInputs
    /\ out = [stack |-> <<>>, objects |-> <<>>,
              expanded |-> [id \in IdsOf(inp.heap) |-> 0], result |-> NULL]
    /\ Fresh

\* the context of the translator in the current state
TCx == [arena |-> arena, store |-> store, objects |-> out.objects,
        metadata |-> oop_recorder, error |-> NoError]

\* the state after a step that left the context cx
Translated(cx, stack, expanded, result, next_pc) ==
    /\ arena' = cx.arena
    /\ store' = cx.store
    /\ oop_recorder' = cx.metadata
    /\ fatal_error' = cx.error
    /\ out' = [stack |-> stack, objects |-> cx.objects, expanded |-> expanded,
               result |-> result]
    /\ pc' = IF cx.error # NoError THEN "aborted" ELSE next_pc
    /\ UNCHANGED <<build, inp, sites_length, site_index, site, next_call_type,
                   invoke_mark_pc, recorder, relocs, patches, consts_end, offsets,
                   implicit_table, handler_table, dependencies, no_safepoint, registered>>

\* lines 213-217: the new ObjectValue of heap[ref] and the call's frame
EnterObject(ref, stack) ==
    LET vo == inp.heap[ref]
    IN  Translated(AppendNewObject(TCx, vo.id, vo.isLongArray),
                   Append(stack, [svh |-> arena + 1, ref |-> ref, i |-> 1]),
                   [out.expanded EXCEPT ![vo.id] = @ + 1], NULL, "fields")

Top == out.stack[Len(out.stack)]
TopObject == inp.heap[Top.ref]
InFields == pc = "fields" /\ Top.i <= Len(TopObject.values)
NextField == [out.stack EXCEPT ![Len(out.stack)].i = @ + 1]

\* the call of site_Safepoint or site_Call with a VirtualObject: lines 199-217
TranslateCall ==
    /\ pc = "call"
    /\ FindObject(out.objects, store, inp.heap[inp.root].id, 1) = NULL
    /\ EnterObject(inp.root, out.stack)

\* lines 221 and 206-211: the field is a virtual object whose id is in the list
FieldSeen ==
    /\ InFields
    /\ TopObject.values[Top.i].tag = "VirtualObject"
    /\ \E found \in {FindObject(out.objects, store,
                                inp.heap[TopObject.values[Top.i].ref].id, 1)} :
          /\ found # NULL
          /\ Translated(AppendField(Result(found, NULL, TCx), TopObject.isLongArray,
                                    Top.svh),
                        NextField, out.expanded, NULL, "fields")

\* lines 221 and 213-217: the field is a virtual object whose id is not in the list
FieldNew ==
    /\ InFields
    /\ TopObject.values[Top.i].tag = "VirtualObject"
    /\ FindObject(out.objects, store, inp.heap[TopObject.values[Top.i].ref].id, 1) = NULL
    /\ Len(out.stack) < MaxStack
    /\ EnterObject(TopObject.values[Top.i].ref, out.stack)

\* lines 221-235: the field is no virtual object
FieldValue ==
    /\ InFields
    /\ TopObject.values[Top.i].tag # "VirtualObject"
    /\ \E r \in {get_hotspot_value(TopObject.values[Top.i],
                                   total_frame_size_of(frameSize), inp.heap, TCx)} :
          Translated(IF r.cx.error # NoError THEN r.cx
                     ELSE AppendField(r, TopObject.isLongArray, Top.svh),
                     NextField, out.expanded, NULL, "fields")

\* line 237: the loop is over, sv is returned: to the caller's loop, which adds
\* it to the fields of its ObjectValue, or to the caller of the translator
FieldsDone ==
    /\ pc = "fields"
    /\ Top.i > Len(TopObject.values)
    /\ IF Len(out.stack) = 1
       THEN Translated(TCx, <<>>, out.expanded, ObjectValue(Top.svh), "done")
       ELSE LET caller == out.stack[Len(out.stack) - 1]
            IN  Translated(AppendField(Result(ObjectValue(Top.svh), NULL, TCx),
                                       inp.heap[caller.ref].isLongArray, caller.svh),
                           [SubSeq(out.stack, 1, Len(out.stack) - 1)
                               EXCEPT ![Len(out.stack) - 1].i = @ + 1],
                           out.expanded, NULL, "fields")

NextTranslate ==
    \/ TranslateCall
    \/ FieldSeen
    \/ FieldNew
    \/ FieldValue
    \/ FieldsDone

SpecTranslate == InitTranslate /\ [][NextTranslate]_vars

\* the translator is sequential code: a call that can take a step takes it
SpecTranslateFair == SpecTranslate /\ WF_vars(NextTranslate)

\* the step-by-step translation ends with what get_hotspot_value gives
TranslateAgrees ==
    pc = "done" =>
        LET r == get_hotspot_value(VirtualObject(inp.root), total_frame_size_of(frameSize),
                                   inp.heap, Context(0, <<>>, <<>>, {}))
        IN  /\ r.value = out.result
            /\ r.cx.store = store
            /\ r.cx.arena = arena
            /\ r.cx.objects = out.objects

\* C6: get_hotspot_value terminates on every finite graph of virtual objects,
\* cyclic ones included: the ObjectValue is in the seen list before its fields are
\* translated, so the fields of each id are translated at most once and the
\* nesting of the calls is at most the number of ids.
C6_TerminatesOnCycles ==
    /\ [](\A id \in IdsOf(inp.heap) : out.expanded[id] <= 1)
    /\ [](Len(out.stack) <= Cardinality(IdsOf(inp.heap)))
    /\ <>(pc \in {"done", "aborted"})

\* the object at ref 1 reaches itself through the object at ref 2, and directly
C6_Witness ==
    /\ pc = "done"
    /\ inp.heap = CyclicHeap /\ inp.root = 1
    /\ out.result = ObjectValue(1)
    /\ out.expanded[0] = 1 /\ out.expanded[1] = 1
    /\ ObjectValue(1) \in {store[1].field_values[i] : i \in 1..Len(store[1].field_values)}

====
